---- MODULE Spec2Model ----
(***************************************************************************)
(* Dataset quality scoring and persona synthesis engine.                   *)
(*                                                                         *)
(* The persona tagger, the contextual scoring engine and the utility score *)
(* synthesizer of agents/tools.py are modelled as operators over           *)
(* dictionaries (TLA+ functions whose DOMAIN is the set of keys).  The     *)
(* validation agent's pipeline of agents/enhanced_validation_agent.py is   *)
(* modelled as a state machine with one step per awaited tool call.        *)
(*                                                                         *)
(* Fixed point.  Python floats are modelled by scaled integers:            *)
(*   - scores, percentages and ratios read from analyzer outputs are in    *)
(*     hundredths (95.0 is 9500, a ratio of 19.0 is 1900);                 *)
(*   - rule weights and thresholds are in hundredths (0.4 is 40);          *)
(*   - counts (rows, columns, issues) are plain integers;                  *)
(*   - every derived quantity names its own unit in a comment.             *)
(* round(x, n) is Python's round on the float: to nearest, see RoundDiv.    *)
(***************************************************************************)
EXTENDS Integers, Sequences, FiniteSets, TLC

(***************************************************************************)
(* State                                                                   *)
(***************************************************************************)

VARIABLES
    pc,                 \* position of the request being handled
    dataset,            \* the loaded DataFrame (the facts the agent reads of it)
    tools_to_run,       \* the selected foundational tools not yet executed
    executed,           \* the tools executed through tool_registry, in order
    analysis_results,   \* the analysis_results dictionary of the request
    persona_result,     \* result of dataset_persona_tagger
    scoring_result,     \* result of contextual_scoring_engine
    synthesis_result,   \* result of utility_score_synthesizer
    result,             \* the DatasetAnalysisResult returned for the request
    runs,               \* number of runs started on analysis_results
    first_run,          \* the results of the first run on analysis_results
    float_ties,         \* how binary floating point resolves a decimal tie
    sent,               \* the messages sent with ctx.send, in order
    active_requests,    \* self.active_requests of an orchestrator
    completed_results,  \* self.completed_results of OrchestratorAgent
    legal_runs,         \* the request ids _run_legal_analysis was called for
    validation_results, \* validation_results of the HTTP API
    validation_status,  \* validation_status of the HTTP API
    background_tasks,   \* the background task scheduled for each request id
    received            \* the requests received so far, by request id

vars == <<pc, dataset, tools_to_run, executed, analysis_results, persona_result,
          scoring_result, synthesis_result, result, runs, first_run, float_ties, sent,
          active_requests, completed_results, legal_runs, validation_results,
          validation_status, background_tasks, received>>

\* A result that has not been produced yet.
NoResult == [pending |-> TRUE]

\* How many times the tools are run on the same inputs.
MaxRuns == 2

(***************************************************************************)
(* Dictionary helpers                                                      *)
(***************************************************************************)

\* dict.get(key, default)
Get(d, key, default) == IF key \in DOMAIN d THEN d[key] ELSE default

\* d[key] = value on a dictionary (insertion or overwrite)
Put(d, key, value) == [k \in (DOMAIN d) \cup {key} |-> IF k = key THEN value ELSE d[k]]

EmptyDict == [k \in {} |-> 0]

Min2(a, b) == IF a <= b THEN a ELSE b
Max2(a, b) == IF a >= b THEN a ELSE b

\* round(x, k) on a float whose exact decimal value is n / d units of the
\* last kept digit; n >= 0, d > 0.  Off a tie the result is the nearest
\* integer.  On a decimal tie the float that holds x lies just below or just
\* above the tie (0.7 * 100.0 + 0.3 * 64.5 is 89.3499..., and round(., 1)
\* gives 89.3), so the result is q or q + 1 as the binary representation
\* decides; float_ties records that direction, the same for every run.
RoundDiv(n, d) ==
    LET q == n \div d
        r == n % d
    IN  IF 2 * r < d THEN q
        ELSE IF 2 * r > d THEN q + 1
        ELSE IF float_ties = "down" THEN q ELSE q + 1

RECURSIVE SumSeq(_)
SumSeq(s) == IF s = <<>> THEN 0 ELSE Head(s) + SumSeq(Tail(s))

RECURSIVE SeqToSet(_)
SeqToSet(s) == IF s = <<>> THEN {} ELSE {Head(s)} \cup SeqToSet(Tail(s))

(***************************************************************************)
(* DatasetPersonaTaggerTool                                                *)
(***************************************************************************)

\* One predicate of a persona rule: the characteristic it reads, its
\* comparator ("min", "max", "value" or "values"), its bound and its weight.
Pred(char, kind, bound, weight) ==
    [char |-> char, kind |-> kind, bound |-> bound, weight |-> weight]

\* _define_persona_rules: the rules in the order of the dictionary literal.
persona_rules == <<
    [name |-> "#AnomalyDetection", threshold |-> 60, preds |-> <<
        Pred("class_imbalance_ratio", "min", 1000, 40),
        Pred("minority_class_percentage", "max", 500, 30),
        Pred("outlier_percentage", "min", 300, 20),
        Pred("data_completeness", "min", 8000, 10) >>],
    [name |-> "#FraudResearch", threshold |-> 70, preds |-> <<
        Pred("class_imbalance_ratio", "min", 2000, 50),
        Pred("minority_class_percentage", "max", 200, 30),
        Pred("data_completeness", "min", 8500, 20) >>],
    [name |-> "#FairnessAudit", threshold |-> 50, preds |-> <<
        Pred("has_demographic_features", "value", TRUE, 40),
        Pred("class_balance_level", "values", {"imbalanced", "severely_imbalanced"}, 30),
        Pred("data_completeness", "min", 7000, 20),
        Pred("feature_correlation_issues", "min", 1, 10) >>],
    [name |-> "#GeneralPurposeML", threshold |-> 70, preds |-> <<
        Pred("data_completeness", "min", 9000, 30),
        Pred("class_balance_level", "values", {"excellent", "good", "fair"}, 30),
        Pred("duplicate_percentage", "max", 200, 20),
        Pred("outlier_percentage", "max", 500, 20) >>],
    [name |-> "#PredictiveModeling", threshold |-> 65, preds |-> <<
        Pred("ml_usability_score", "min", 7000, 40),
        Pred("feature_importance_distribution", "values", {"medium", "low"}, 30),
        Pred("data_separability_score", "min", 6000, 20),
        Pred("data_completeness", "min", 8500, 10) >>],
    [name |-> "#ImbalancedLearning", threshold |-> 60, preds |-> <<
        Pred("class_imbalance_ratio", "min", 500, 40),
        Pred("minority_class_percentage", "max", 1000, 30),
        Pred("data_completeness", "min", 7500, 20),
        Pred("ml_usability_score", "min", 5000, 10) >>],
    [name |-> "#ModelRobustnessTesting", threshold |-> 50, preds |-> <<
        Pred("outlier_percentage", "min", 1000, 40),
        Pred("missing_percentage", "min", 500, 30),
        Pred("type_consistency_issues", "min", 2, 20),
        Pred("duplicate_percentage", "min", 100, 10) >>],
    [name |-> "#AdversarialTraining", threshold |-> 60, preds |-> <<
        Pred("outlier_percentage", "min", 1500, 50),
        Pred("feature_correlation_issues", "min", 3, 30),
        Pred("data_separability_score", "max", 4000, 20) >>],
    [name |-> "#SociologicalAnalysis", threshold |-> 40, preds |-> <<
        Pred("has_demographic_features", "value", TRUE, 50),
        Pred("class_balance_level", "values", {"imbalanced", "severely_imbalanced"}, 20),
        Pred("data_completeness", "min", 6000, 20),
        Pred("feature_count", "min", 10, 10) >>],
    [name |-> "#DataQualityBenchmark", threshold |-> 50, preds |-> <<
        Pred("missing_percentage", "min", 2000, 40),
        Pred("duplicate_percentage", "min", 500, 30),
        Pred("type_consistency_issues", "min", 5, 20),
        Pred("outlier_percentage", "min", 800, 10) >>]
>>

\* Confidence of the default tag synthesized when no rule matches (0.7),
\* in thousandths like every confidence the tagger reports.
DefaultConfidence == 700

\* The keywords that occur in a (lower-cased) column name.  Substring search
\* over strings is tabulated for the column names the model uses.
ColumnKeywords(col) ==
    CASE col = "age"      -> {"age"}
      [] col = "gender"   -> {"gender"}
      [] col = "zip_code" -> {"zip"}
      [] OTHER            -> {}

TaggerDemographicKeywords ==
    {"age", "gender", "race", "ethnicity", "income", "education", "location", "zip", "postal"}

\* any(any(keyword in col.lower() for keyword in keywords) for col in columns)
HasDemographic(columns, keywords) ==
    \E i \in 1..Len(columns) : ColumnKeywords(columns[i]) \cap keywords # {}

\* _extract_characteristics: the characteristics record, one group of keys
\* per analyzer output that is present in analysis_results.
extract_characteristics(ar) ==
    LET has(k) == k \in DOMAIN ar
        mv == ar["missing_value_analysis"]
        dup == ar["duplicate_analysis"]
        tc == ar["type_consistency_analysis"]
        out == ar["outlier_analysis"]
        cb == ar["class_balance_analysis"]
        corr == ar["correlation_analysis"]
        ml == ar["ml_performance_analysis"]
        fi == ar["feature_importance_analysis"]
        sep == ar["separability_analysis"]
        basic == Get(ar["data_profile"], "basic_info", EmptyDict)
        keys ==
            (IF has("missing_value_analysis") THEN {"missing_percentage", "data_completeness"} ELSE {})
            \cup (IF has("duplicate_analysis") THEN {"duplicate_percentage"} ELSE {})
            \cup (IF has("type_consistency_analysis") THEN {"type_consistency_issues"} ELSE {})
            \cup (IF has("outlier_analysis") THEN {"outlier_percentage"} ELSE {})
            \cup (IF has("class_balance_analysis")
                  THEN {"class_balance_level", "class_imbalance_ratio", "minority_class_percentage"} ELSE {})
            \cup (IF has("correlation_analysis")
                  THEN {"feature_correlation_issues", "multicollinearity_risk"} ELSE {})
            \cup (IF has("ml_performance_analysis") THEN {"ml_usability_score"} ELSE {})
            \cup (IF has("feature_importance_analysis") THEN {"feature_importance_distribution"} ELSE {})
            \cup (IF has("separability_analysis") THEN {"data_separability_score"} ELSE {})
            \cup (IF has("data_profile")
                  THEN {"feature_count", "sample_count", "has_demographic_features"} ELSE {})
    IN  [k \in keys |->
            CASE k = "missing_percentage" -> Get(mv, "overall_missing_percentage", 0)
              [] k = "data_completeness" -> Get(mv, "integrity_score", 10000)
              [] k = "duplicate_percentage" -> Get(dup, "duplicate_percentage", 0)
              [] k = "type_consistency_issues" -> Len(Get(tc, "type_issues", <<>>))
              [] k = "outlier_percentage" -> Get(out, "overall_outlier_percentage", 0)
              [] k = "class_balance_level" -> Get(cb, "balance_level", "unknown")
              [] k = "class_imbalance_ratio" -> Get(cb, "imbalance_ratio", 100)
              [] k = "minority_class_percentage" ->
                    Get(Get(cb, "minority_class", EmptyDict), "percentage", 5000)
              [] k = "feature_correlation_issues" -> Len(Get(corr, "high_correlations", <<>>))
              [] k = "multicollinearity_risk" -> Get(corr, "multicollinearity_risk", "low")
              [] k = "ml_usability_score" -> Get(ml, "ml_usability_score", 0)
              [] k = "feature_importance_distribution" ->
                    Get(Get(fi, "information_distribution", EmptyDict),
                        "information_concentration", "medium")
              [] k = "data_separability_score" -> Get(sep, "separability_score", 5000)
              [] k = "feature_count" -> Get(basic, "total_columns", 0)
              [] k = "sample_count" -> Get(basic, "total_rows", 0)
              [] k = "has_demographic_features" ->
                    HasDemographic(Get(basic, "column_names", <<>>), TaggerDemographicKeywords)]

\* The comparator test of one predicate on a characteristic that is present.
rule_matched(char_value, p) ==
    CASE p.kind = "min"    -> char_value >= p.bound
      [] p.kind = "max"    -> char_value <= p.bound
      [] p.kind = "value"  -> char_value = p.bound
      [] p.kind = "values" -> char_value \in p.bound

\* total_weight as it would be if only the predicates whose characteristic
\* is present added their weight.
total_weight_of_present(characteristics, rule) ==
    SumSeq([i \in 1..Len(rule.preds) |->
        IF rule.preds[i].char \in DOMAIN characteristics THEN rule.preds[i].weight ELSE 0])

\* total_weight: every predicate of the rule adds its weight, before the
\* test whether its characteristic is present.
total_weight(characteristics, rule) ==
    SumSeq([i \in 1..Len(rule.preds) |-> rule.preds[i].weight])

\* matched_weight: the weights of the predicates whose characteristic is
\* present and satisfies the comparator.
matched_weight(characteristics, rule) ==
    SumSeq([i \in 1..Len(rule.preds) |->
        IF rule.preds[i].char \in DOMAIN characteristics
           /\ rule_matched(characteristics[rule.preds[i].char], rule.preds[i])
        THEN rule.preds[i].weight ELSE 0])

\* _evaluate_persona_rules as it would be if a rule were tagged as soon as
\* one of its predicates matches.
evaluate_persona_rules_any_match(characteristics, rule) ==
    LET tw == total_weight(characteristics, rule)
        mw == matched_weight(characteristics, rule)
    IN  [should_tag |-> mw > 0,
         confidence |-> IF tw > 0 THEN RoundDiv(1000 * mw, tw) ELSE 0,
         reasons |-> <<>>]

\* _evaluate_persona_rules: (should_tag, round(confidence, 3), reasons).
\* confidence is in thousandths; reasons lists the matched predicates.
evaluate_persona_rules(characteristics, rule) ==
    LET tw == total_weight(characteristics, rule)
        mw == matched_weight(characteristics, rule)
    IN  [should_tag |-> IF tw > 0 THEN 100 * mw >= rule.threshold * tw
                        ELSE 0 >= rule.threshold,
         confidence |-> IF tw > 0 THEN RoundDiv(1000 * mw, tw) ELSE 0,
         reasons |-> SelectSeq([i \in 1..Len(rule.preds) |-> rule.preds[i]],
                        LAMBDA p : p.char \in DOMAIN characteristics
                                   /\ rule_matched(characteristics[p.char], p))]

\* sorted(items, key=confidence, reverse=True): a stable sort, so that among
\* equal confidences the insertion order is kept.
RECURSIVE SortByConfidence(_, _)
SortByConfidence(tags, conf) ==
    IF tags = <<>> THEN <<>>
    ELSE LET best == CHOOSE i \in 1..Len(tags) :
                        /\ \A j \in 1..Len(tags) : conf[tags[j]] <= conf[tags[i]]
                        /\ \A j \in 1..(i - 1) : conf[tags[j]] < conf[tags[i]]
             rest == [j \in 1..(Len(tags) - 1) |-> IF j < best THEN tags[j] ELSE tags[j + 1]]
         IN  <<tags[best]>> \o SortByConfidence(rest, conf)

\* The list persona_tags of the result: the matching personas in the order
\* in which the rules are evaluated.
tagged_personas(evals) ==
    LET matching == SelectSeq([i \in 1..Len(persona_rules) |-> i],
                              LAMBDA i : evals[i].should_tag)
    IN  [j \in 1..Len(matching) |-> persona_rules[matching[j]].name]

\* DatasetPersonaTaggerTool.execute as it would be if tag_reasoning were kept
\* on the tool between calls: the reasoning of the previous request stays in
\* the dictionary that is sorted and reported.
PersonaTaggerKeepingReasoning(ar) ==
    LET characteristics == extract_characteristics(ar)
        evals == [i \in 1..Len(persona_rules) |->
                    evaluate_persona_rules(characteristics, persona_rules[i])]
        matched_tags == tagged_personas(evals)
        persona_tags == IF matched_tags = <<>> THEN <<"#GeneralPurposeML">> ELSE matched_tags
        own == IF matched_tags = <<>> THEN [t \in {"#GeneralPurposeML"} |-> DefaultConfidence]
               ELSE [t \in SeqToSet(matched_tags) |->
                       LET i == CHOOSE i \in 1..Len(persona_rules) : persona_rules[i].name = t
                       IN  evals[i].confidence]
        kept_tags == IF "previous" \in DOMAIN first_run
                     THEN first_run.previous.persona_tags ELSE <<>>
        kept == IF "previous" \in DOMAIN first_run
                THEN first_run.previous.confidence_scores ELSE EmptyDict
        keys == kept_tags \o SelectSeq(persona_tags, LAMBDA t : t \notin DOMAIN kept)
        confidence_scores == [t \in SeqToSet(keys) |-> IF t \in DOMAIN own THEN own[t] ELSE kept[t]]
        sorted_personas == SortByConfidence(keys, confidence_scores)
    IN  [success |-> TRUE,
         persona_tags |-> persona_tags,
         primary_persona |-> sorted_personas[1],
         confidence_scores |-> confidence_scores,
         characteristics_used |-> characteristics]

\* DatasetPersonaTaggerTool.execute on inputs for which no exception is raised.
PersonaTagger(ar) ==
    LET characteristics == extract_characteristics(ar)
        evals == [i \in 1..Len(persona_rules) |->
                    evaluate_persona_rules(characteristics, persona_rules[i])]
        matched_tags == tagged_personas(evals)
        persona_tags == IF matched_tags = <<>> THEN <<"#GeneralPurposeML">> ELSE matched_tags
        confidence_scores ==
            IF matched_tags = <<>> THEN [t \in {"#GeneralPurposeML"} |-> DefaultConfidence]
            ELSE [t \in SeqToSet(matched_tags) |->
                    LET i == CHOOSE i \in 1..Len(persona_rules) : persona_rules[i].name = t
                    IN  evals[i].confidence]
        sorted_personas == SortByConfidence(persona_tags, confidence_scores)
    IN  [success |-> TRUE,
         persona_tags |-> persona_tags,
         primary_persona |-> IF sorted_personas # <<>> THEN sorted_personas[1]
                             ELSE "#GeneralPurposeML",
         confidence_scores |-> confidence_scores,
         characteristics_used |-> characteristics]

(***************************************************************************)
(* ContextualScoringEngineTool                                             *)
(***************************************************************************)

\* Optional[float]: None is the empty sequence, a value v is <<v>>.
None == <<>>
Some(v) == <<v>>

W(metric, weight) == [metric |-> metric, weight |-> weight]
Adj(name, key, bound, amount) == [name |-> name, key |-> key, bound |-> bound, amount |-> amount]

\* _define_scoring_lenses: the lenses in the order of the dictionary
\* literal.  Weights are in hundredths, thresholds in the unit of the metric
\* they are compared with, penalty and bonus amounts in score points.
scoring_lenses == <<
    [name |-> "general_purpose_score",
     weights |-> << W("completeness", 30), W("consistency", 25), W("balance", 15),
                    W("cleanliness", 15), W("ml_readiness", 15) >>,
     penalties |-> << Adj("high_missing", "threshold", 2000, 15),
                      Adj("severe_imbalance", "threshold", 5000, 10),
                      Adj("many_duplicates", "threshold", 1000, 8) >>,
     bonuses |-> << >>],
    [name |-> "anomaly_research_score",
     weights |-> << W("imbalance_presence", 35), W("minority_completeness", 25),
                    W("overall_completeness", 15), W("separability", 15),
                    W("cleanliness", 10) >>,
     penalties |-> << >>,
     bonuses |-> << Adj("high_imbalance", "threshold", 1000, 25),
                    Adj("extreme_imbalance", "threshold", 5000, 40) >>],
    [name |-> "fairness_audit_score",
     weights |-> << W("demographic_presence", 30), W("bias_detectability", 25),
                    W("completeness", 20), W("sample_diversity", 15),
                    W("feature_richness", 10) >>,
     penalties |-> << >>,
     bonuses |-> << Adj("has_demographics", "condition", TRUE, 30),
                    Adj("imbalance_present", "threshold", 200, 20) >>],
    [name |-> "predictive_modeling_score",
     weights |-> << W("ml_performance", 30), W("feature_importance", 25),
                    W("separability", 20), W("completeness", 15), W("consistency", 10) >>,
     penalties |-> << Adj("weak_signals", "threshold", 5000, 25),
                      Adj("poor_separability", "threshold", 4000, 20) >>,
     bonuses |-> << >>],
    [name |-> "robustness_testing_score",
     weights |-> << W("noise_presence", 30), W("outlier_presence", 25),
                    W("missing_patterns", 20), W("type_inconsistencies", 15),
                    W("completeness", 10) >>,
     penalties |-> << >>,
     bonuses |-> << Adj("high_outliers", "threshold", 1000, 20),
                    Adj("missing_data", "threshold", 500, 15),
                    Adj("type_issues", "threshold", 2, 10) >>],
    [name |-> "research_benchmark_score",
     weights |-> << W("completeness", 20), W("documentation", 20), W("balance", 15),
                    W("size_adequacy", 15), W("feature_diversity", 15),
                    W("reproducibility", 15) >>,
     penalties |-> << >>,
     bonuses |-> << Adj("large_sample", "threshold", 10000, 15),
                    Adj("balanced_classes", "condition", "excellent", 20) >>]
>>

LensNames == {scoring_lenses[i].name : i \in 1..Len(scoring_lenses)}

LensConfig(lens_name) ==
    scoring_lenses[CHOOSE i \in 1..Len(scoring_lenses) : scoring_lenses[i].name = lens_name]

\* The starting value of every lens score, in score points.
BaseScore == 60

ScoringDemographicKeywords ==
    {"age", "gender", "race", "ethnicity", "income", "education"}

\* _extract_metrics.  Scores, percentages and ratios stay in hundredths and
\* counts stay counts; the two derived metrics cleanliness and ml_readiness
\* are weighted sums with one-decimal weights and are in thousandths.
extract_metrics(ar) ==
    LET has(k) == k \in DOMAIN ar
        mv == ar["missing_value_analysis"]
        tc == ar["type_consistency_analysis"]
        dup == ar["duplicate_analysis"]
        cb == ar["class_balance_analysis"]
        out == ar["outlier_analysis"]
        corr == ar["correlation_analysis"]
        ml == ar["ml_performance_analysis"]
        fi == ar["feature_importance_analysis"]
        sep == ar["separability_analysis"]
        basic == Get(ar["data_profile"], "basic_info", EmptyDict)
        info_dist == Get(fi, "information_distribution", EmptyDict)
        keys ==
            (IF has("missing_value_analysis") THEN {"completeness", "missing_percentage"} ELSE {})
            \cup (IF has("type_consistency_analysis") THEN {"consistency", "type_issues_count"} ELSE {})
            \cup (IF has("duplicate_analysis") THEN {"duplicate_percentage", "duplicate_score"} ELSE {})
            \cup (IF has("class_balance_analysis")
                  THEN {"balance_score", "imbalance_ratio", "minority_class_pct", "balance_level"}
                  ELSE {})
            \cup (IF has("outlier_analysis") THEN {"outlier_percentage", "outlier_score"} ELSE {})
            \cup (IF has("correlation_analysis")
                  THEN {"correlation_score", "high_correlations_count"} ELSE {})
            \cup (IF has("ml_performance_analysis") THEN {"ml_usability_score"} ELSE {})
            \cup (IF has("feature_importance_analysis")
                  THEN {"information_score", "useful_features_count"} ELSE {})
            \cup (IF has("separability_analysis") THEN {"separability_score"} ELSE {})
            \cup (IF has("data_profile")
                  THEN {"sample_count", "feature_count", "has_demographic_features"} ELSE {})
        base == [k \in keys |->
            CASE k = "completeness" -> Get(mv, "integrity_score", 10000)
              [] k = "missing_percentage" -> Get(mv, "overall_missing_percentage", 0)
              [] k = "consistency" -> Get(tc, "consistency_score", 10000)
              [] k = "type_issues_count" -> Len(Get(tc, "type_issues", <<>>))
              [] k = "duplicate_percentage" -> Get(dup, "duplicate_percentage", 0)
              [] k = "duplicate_score" -> Get(dup, "integrity_score", 10000)
              [] k = "balance_score" -> Get(cb, "balance_score", 10000)
              [] k = "imbalance_ratio" -> Get(cb, "imbalance_ratio", 100)
              [] k = "minority_class_pct" ->
                    Get(Get(cb, "minority_class", EmptyDict), "percentage", 5000)
              [] k = "balance_level" -> Get(cb, "balance_level", "unknown")
              [] k = "outlier_percentage" -> Get(out, "overall_outlier_percentage", 0)
              [] k = "outlier_score" -> Get(out, "outlier_score", 10000)
              [] k = "correlation_score" -> Get(corr, "multicollinearity_score", 10000)
              [] k = "high_correlations_count" -> Len(Get(corr, "high_correlations", <<>>))
              [] k = "ml_usability_score" -> Get(ml, "ml_usability_score", 0)
              [] k = "information_score" -> Get(fi, "information_score", 5000)
              [] k = "useful_features_count" -> Get(info_dist, "features_above_5pct", 0)
              [] k = "separability_score" -> Get(sep, "separability_score", 5000)
              [] k = "sample_count" -> Get(basic, "total_rows", 0)
              [] k = "feature_count" -> Get(basic, "total_columns", 0)
              [] k = "has_demographic_features" ->
                    HasDemographic(Get(basic, "column_names", <<>>), ScoringDemographicKeywords)]
        cleanliness == 4 * Get(base, "completeness", 10000)
                       + 3 * Get(base, "consistency", 10000)
                       + 3 * Get(base, "duplicate_score", 10000)
        ml_readiness == 5 * Get(base, "ml_usability_score", 0)
                        + 3 * Get(base, "separability_score", 5000)
                        + 2 * Get(base, "information_score", 5000)
    IN  Put(Put(base, "cleanliness", cleanliness), "ml_readiness", ml_readiness)

\* The metrics _extract_metrics stores in thousandths.
MilliMetrics == {"cleanliness", "ml_readiness"}

\* _get_metric_value, in thousandths of a score point (100.0 is 100000):
\* the special metrics are computed from the metrics record, any other name
\* is looked up in it and is None when it is not a key.
get_metric_value(m, metric_name) ==
    CASE metric_name = "imbalance_presence" ->
            Some(Min2(100000, (Get(m, "imbalance_ratio", 100) - 100) * 100))
      [] metric_name = "minority_completeness" ->
            Some(Max2(0, 100000 - Get(m, "minority_class_pct", 5000) * 20))
      [] metric_name = "demographic_presence" ->
            Some(IF Get(m, "has_demographic_features", FALSE) THEN 100000 ELSE 0)
      [] metric_name = "bias_detectability" ->
            Some(Min2(100000, (Get(m, "imbalance_ratio", 100) - 100) * 150))
      [] metric_name = "sample_diversity" ->
            Some(Min2(100000, Get(m, "feature_count", 0) * 5000))
      [] metric_name = "feature_richness" ->
            Some(Min2(100000, Get(m, "useful_features_count", 0) * 10000))
      [] metric_name = "ml_performance" -> Some(Get(m, "ml_usability_score", 0) * 10)
      [] metric_name = "feature_importance" -> Some(Get(m, "information_score", 5000) * 10)
      [] metric_name = "noise_presence" ->
            Some(Min2(100000, Get(m, "outlier_percentage", 0) * 50))
      [] metric_name = "outlier_presence" ->
            Some(Min2(100000, Get(m, "outlier_percentage", 0) * 30))
      [] metric_name = "missing_patterns" ->
            Some(Min2(100000, Get(m, "missing_percentage", 0) * 40))
      [] metric_name = "type_inconsistencies" ->
            Some(Min2(100000, Get(m, "type_issues_count", 0) * 15000))
      [] metric_name = "documentation" -> Some(Get(m, "consistency", 10000) * 10)
      [] metric_name = "size_adequacy" ->
            Some(Min2(100000, Max2(0, Get(m, "sample_count", 0) * 10)))
      [] metric_name = "feature_diversity" ->
            Some(Min2(100000, Get(m, "feature_count", 0) * 3000))
      [] metric_name = "reproducibility" -> Some(Get(m, "consistency", 10000) * 10)
      [] metric_name = "balance" -> Some(Get(m, "balance_score", 10000) * 10)
      [] OTHER ->
            IF metric_name \in DOMAIN m
            THEN Some(IF metric_name \in MilliMetrics THEN m[metric_name]
                      ELSE m[metric_name] * 10)
            ELSE None

\* _evaluate_penalty, in score points
evaluate_penalty(m, penalty) ==
    CASE penalty.name = "high_missing" ->
            IF Get(m, "missing_percentage", 0) > penalty.bound THEN penalty.amount ELSE 0
      [] penalty.name = "severe_imbalance" ->
            IF Get(m, "imbalance_ratio", 100) > penalty.bound THEN penalty.amount ELSE 0
      [] penalty.name = "many_duplicates" ->
            IF Get(m, "duplicate_percentage", 0) > penalty.bound THEN penalty.amount ELSE 0
      [] penalty.name = "weak_signals" ->
            IF Get(m, "ml_usability_score", 10000) < penalty.bound THEN penalty.amount ELSE 0
      [] penalty.name = "poor_separability" ->
            IF Get(m, "separability_score", 10000) < penalty.bound THEN penalty.amount ELSE 0
      [] OTHER -> 0

\* _evaluate_bonus as it would be if the imbalance bonuses were granted
\* below their threshold instead of above it.
evaluate_bonus_below_threshold(m, bonus) ==
    IF bonus.name \in {"high_imbalance", "extreme_imbalance", "imbalance_present"}
       /\ Get(m, "imbalance_ratio", 100) < bonus.bound
    THEN bonus.amount ELSE 0

\* _evaluate_bonus, in score points
evaluate_bonus(m, bonus) ==
    CASE bonus.name \in {"high_imbalance", "extreme_imbalance", "imbalance_present"} ->
            IF Get(m, "imbalance_ratio", 100) > bonus.bound THEN bonus.amount ELSE 0
      [] bonus.name = "has_demographics" ->
            IF Get(m, "has_demographic_features", FALSE) = bonus.bound THEN bonus.amount ELSE 0
      [] bonus.name = "high_outliers" ->
            IF Get(m, "outlier_percentage", 0) > bonus.bound THEN bonus.amount ELSE 0
      [] bonus.name = "missing_data" ->
            IF Get(m, "missing_percentage", 0) > bonus.bound THEN bonus.amount ELSE 0
      [] bonus.name = "type_issues" ->
            IF Get(m, "type_issues_count", 0) > bonus.bound THEN bonus.amount ELSE 0
      [] bonus.name = "large_sample" ->
            IF Get(m, "sample_count", 0) > bonus.bound THEN bonus.amount ELSE 0
      [] bonus.name = "balanced_classes" ->
            IF Get(m, "balance_level", "") = bonus.bound THEN bonus.amount ELSE 0
      [] OTHER -> 0

\* The contribution as it would be if the metric were not centred on 50:
\* (value / 100) * weight * 20, in millionths of a score point.
contribution_from_zero(m, w) ==
    LET metric_value == get_metric_value(m, w.metric)
    IN  IF metric_value # None THEN metric_value[1] * w.weight * 2 ELSE 0

\* The contribution of one weighted metric, ((value - 50) / 50) * weight * 20,
\* in millionths of a score point; a metric that resolves to None adds nothing.
contribution(m, w) ==
    LET metric_value == get_metric_value(m, w.metric)
    IN  IF metric_value # None THEN (metric_value[1] - 50000) * w.weight * 4 ELSE 0

\* base_score before the bounds are applied, in millionths of a score point
lens_base_score(m, lens_config) ==
    BaseScore * 1000000
    + SumSeq([i \in 1..Len(lens_config.weights) |-> contribution(m, lens_config.weights[i])])
    - 1000000 * SumSeq([i \in 1..Len(lens_config.penalties) |->
                            evaluate_penalty(m, lens_config.penalties[i])])
    + 1000000 * SumSeq([i \in 1..Len(lens_config.bonuses) |->
                            evaluate_bonus(m, lens_config.bonuses[i])])

\* The lens score as it would be without its bounds.
unclamped_lens_score(base_score) == base_score

\* final_score = max(0.0, min(100.0, base_score)), in millionths
clamp_lens_score(base_score) == Max2(0, Min2(100000000, base_score))

\* _calculate_lens_score: round(final_score, 1), in tenths of a score point
calculate_lens_score(m, lens_config) ==
    RoundDiv(clamp_lens_score(lens_base_score(m, lens_config)), 100000)

lens_mapping(tag) ==
    CASE tag = "#AnomalyDetection" -> {"anomaly_research_score", "general_purpose_score"}
      [] tag = "#FraudResearch" -> {"anomaly_research_score", "general_purpose_score"}
      [] tag = "#FairnessAudit" -> {"fairness_audit_score", "research_benchmark_score"}
      [] tag = "#GeneralPurposeML" -> {"general_purpose_score", "predictive_modeling_score"}
      [] tag = "#PredictiveModeling" -> {"predictive_modeling_score", "general_purpose_score"}
      [] tag = "#ImbalancedLearning" -> {"anomaly_research_score", "general_purpose_score"}
      [] tag = "#ModelRobustnessTesting" -> {"robustness_testing_score", "general_purpose_score"}
      [] tag = "#AdversarialTraining" -> {"robustness_testing_score", "research_benchmark_score"}
      [] tag = "#SociologicalAnalysis" -> {"fairness_audit_score", "research_benchmark_score"}
      [] tag = "#DataQualityBenchmark" -> {"research_benchmark_score", "robustness_testing_score"}
      [] OTHER -> {}

\* _determine_relevant_lenses builds a set of lens names and returns
\* list(set): the elements are those below, their order is the iteration
\* order of a set of strings, which the string hash seed of the process
\* decides.
relevant_lens_set(persona_tags) ==
    UNION {lens_mapping(persona_tags[i]) : i \in 1..Len(persona_tags)}
    \cup {"general_purpose_score"}

\* The names of S in the order of scoring_lenses.
InLensOrder(S) ==
    SelectSeq([i \in 1..Len(scoring_lenses) |-> scoring_lenses[i].name], LAMBDA n : n \in S)

\* The lists that list(set) can return for a set of lens names.  The only
\* thing the program reads from the order of the list is which of several
\* equal maxima max() meets first, so one list per possible first element
\* is kept: any element of the set first, the others after it.
Orderings(S) == {<<f>> \o InLensOrder(S \ {f}) : f \in S}

\* The lens lists execute may iterate over: every ordering of the relevant
\* set, or the keys of scoring_lenses in their order when persona_tags is
\* empty or None.
relevant_lens_lists(persona_tags) ==
    IF persona_tags # <<>> THEN Orderings(relevant_lens_set(persona_tags))
    ELSE {[i \in 1..Len(scoring_lenses) |-> scoring_lenses[i].name]}

\* max(d.items(), key=lambda x: x[1]) on a dictionary with insertion order
\* keys: the first key, in that order, whose value is maximal.
MaxItem(keys, val) ==
    keys[CHOOSE i \in 1..Len(keys) :
            /\ \A j \in 1..Len(keys) : val[keys[j]] <= val[keys[i]]
            /\ \A j \in 1..(i - 1) : val[keys[j]] < val[keys[i]]]

\* ContextualScoringEngineTool.execute for the lens list relevant_lenses.
\* A dictionary with insertion order is a pair (keys, val); scores are in
\* tenths of a point.
ContextualScoring(ar, relevant_lenses) ==
    LET metrics == extract_metrics(ar)
        names == SelectSeq(relevant_lenses, LAMBDA n : n \in LensNames)
        val == [n \in SeqToSet(names) |-> calculate_lens_score(metrics, LensConfig(n))]
        best == IF names # <<>> THEN MaxItem(names, val) ELSE "general_purpose_score"
    IN  [success |-> TRUE,
         contextual_scores |-> [keys |-> names, val |-> val],
         best_context |-> [name |-> best,
                           score |-> IF names # <<>> THEN val[best] ELSE 500]]

(***************************************************************************)
(* UtilityScoreSynthesizerTool                                             *)
(***************************************************************************)

\* The score taken for an analyzer whose output is missing (100.0), and the
\* highest score taken when no contextual score was given (50.0), in
\* hundredths and in tenths of a point.
DefaultIntegrityComponent == 10000
DefaultHighestScore == 500

\* _calculate_data_integrity_score as it would be if a missing analyzer
\* output counted as 0 instead of 100.
integrity_score_missing_as_zero(ar) ==
    LET Score(key, field) == IF key \in DOMAIN ar THEN Get(ar[key], field, 0) ELSE 0
    IN  Max2(0, Min2(100000, 5 * Score("missing_value_analysis", "integrity_score")
                             + 3 * Score("type_consistency_analysis", "consistency_score")
                             + 2 * Score("duplicate_analysis", "integrity_score")))

\* _calculate_data_integrity_score, in thousandths of a point:
\* 0.5 * completeness + 0.3 * consistency + 0.2 * duplicates, then
\* max(0.0, min(100.0, .)).
calculate_data_integrity_score(ar) ==
    LET completeness_score ==
            IF "missing_value_analysis" \in DOMAIN ar
            THEN Get(ar["missing_value_analysis"], "integrity_score", DefaultIntegrityComponent)
            ELSE DefaultIntegrityComponent
        consistency_score ==
            IF "type_consistency_analysis" \in DOMAIN ar
            THEN Get(ar["type_consistency_analysis"], "consistency_score", DefaultIntegrityComponent)
            ELSE DefaultIntegrityComponent
        duplicate_score ==
            IF "duplicate_analysis" \in DOMAIN ar
            THEN Get(ar["duplicate_analysis"], "integrity_score", DefaultIntegrityComponent)
            ELSE DefaultIntegrityComponent
        data_integrity_score == 5 * completeness_score + 3 * consistency_score + 2 * duplicate_score
    IN  Max2(0, Min2(100000, data_integrity_score))

\* The persona as it would be if it were always taken from the persona tags.
persona_from_tags(score_context, fallback) == fallback

\* The context_to_persona dictionary of _identify_maximum_potential, with
\* the default of its get.
context_to_persona(score_context, fallback) ==
    CASE score_context = "general_purpose_score" -> "#GeneralPurposeML"
      [] score_context = "anomaly_research_score" -> "#AnomalyDetection"
      [] score_context = "fairness_audit_score" -> "#FairnessAudit"
      [] score_context = "predictive_modeling_score" -> "#PredictiveModeling"
      [] score_context = "robustness_testing_score" -> "#ModelRobustnessTesting"
      [] score_context = "research_benchmark_score" -> "#DataQualityBenchmark"
      [] OTHER -> fallback

\* sorted(scores_list, reverse=True)[1]: the second largest value, counting
\* repetitions.
SecondHighest(keys, val) ==
    LET top == CHOOSE i \in 1..Len(keys) : \A j \in 1..Len(keys) : val[keys[j]] <= val[keys[i]]
    IN  val[keys[CHOOSE i \in (1..Len(keys)) \ {top} :
                    \A j \in (1..Len(keys)) \ {top} : val[keys[j]] <= val[keys[i]]]]

\* _identify_maximum_potential; contextual_scores is a dictionary with
\* insertion order (keys, val), scores in tenths.
identify_maximum_potential(contextual_scores, persona_tags) ==
    LET keys == contextual_scores.keys
        val == contextual_scores.val
        fallback == IF persona_tags # <<>> THEN persona_tags[1] ELSE "#GeneralPurposeML"
    IN  IF keys = <<>>
        THEN [highest_score |-> DefaultHighestScore,
              primary_persona |-> fallback,
              score_context |-> "general_purpose_score",
              confidence |-> "low"]
        ELSE LET score_context == MaxItem(keys, val)
                 highest_score == val[score_context]
                 score_gap == IF Len(keys) > 1 THEN highest_score - SecondHighest(keys, val) ELSE 0
             IN  [highest_score |-> highest_score,
                  primary_persona |-> context_to_persona(score_context, fallback),
                  score_context |-> score_context,
                  confidence |-> IF Len(keys) > 1
                                 THEN (IF score_gap > 200 THEN "high"
                                       ELSE IF score_gap > 100 THEN "medium" ELSE "low")
                                 ELSE "medium"]

\* _synthesize_overall_score as it would be if it blended the integrity
\* score already rounded to one decimal.
synthesize_from_reported_integrity(data_integrity_score, highest_contextual_score) ==
    Max2(0, Min2(1000000, 700 * RoundDiv(data_integrity_score, 100)
                          + 300 * highest_contextual_score))

\* _synthesize_overall_score: 0.7 * integrity + 0.3 * highest, then
\* max(0.0, min(100.0, .)).  The integrity score is in thousandths, the
\* highest contextual score in tenths, the result in ten-thousandths.
synthesize_overall_score(data_integrity_score, highest_contextual_score) ==
    Max2(0, Min2(1000000, 7 * data_integrity_score + 300 * highest_contextual_score))

\* _determine_utility_grade as it would be if it were given the overall score
\* already rounded to one decimal (the overall_utility_score of the result).
grade_of_rounded_score(overall_score) ==
    LET reported == RoundDiv(overall_score, 1000)
    IN  IF reported >= 900 THEN "A+"
        ELSE IF reported >= 850 THEN "A"
        ELSE IF reported >= 800 THEN "A-"
        ELSE IF reported >= 750 THEN "B+"
        ELSE IF reported >= 700 THEN "B"
        ELSE IF reported >= 650 THEN "B-"
        ELSE IF reported >= 600 THEN "C+"
        ELSE IF reported >= 550 THEN "C"
        ELSE IF reported >= 500 THEN "C-"
        ELSE IF reported >= 400 THEN "D"
        ELSE "F"

\* _determine_utility_grade, on the overall score in ten-thousandths
determine_utility_grade(overall_score) ==
    IF overall_score >= 900000 THEN "A+"
    ELSE IF overall_score >= 850000 THEN "A"
    ELSE IF overall_score >= 800000 THEN "A-"
    ELSE IF overall_score >= 750000 THEN "B+"
    ELSE IF overall_score >= 700000 THEN "B"
    ELSE IF overall_score >= 650000 THEN "B-"
    ELSE IF overall_score >= 600000 THEN "C+"
    ELSE IF overall_score >= 550000 THEN "C"
    ELSE IF overall_score >= 500000 THEN "C-"
    ELSE IF overall_score >= 400000 THEN "D"
    ELSE "F"

\* _assess_readiness as it would be if production_ready and publication_ready
\* looked at the overall score only.
assess_readiness_ignoring_integrity(integrity_score, overall_score) ==
    LET research_ready == overall_score >= 600000
        production_ready == overall_score >= 750000
        publication_ready == overall_score >= 700000
        immediate_use == overall_score >= 800000
        preprocessing_required == overall_score < 700000
        major_improvements_needed == overall_score < 500000
    IN  [research_ready |-> research_ready,
         production_ready |-> production_ready,
         publication_ready |-> publication_ready,
         immediate_use |-> immediate_use,
         preprocessing_required |-> preprocessing_required,
         major_improvements_needed |-> major_improvements_needed,
         primary_state |-> IF immediate_use THEN "immediate_use"
                           ELSE IF production_ready THEN "production_ready"
                           ELSE IF research_ready THEN "research_ready"
                           ELSE IF preprocessing_required THEN "preprocessing_required"
                           ELSE "major_improvements_needed"]

\* _assess_readiness, on the integrity score in thousandths and the overall
\* score in ten-thousandths
assess_readiness(integrity_score, overall_score) ==
    LET research_ready == overall_score >= 600000
        production_ready == overall_score >= 750000 /\ integrity_score >= 80000
        publication_ready == overall_score >= 700000 /\ integrity_score >= 75000
        immediate_use == overall_score >= 800000
        preprocessing_required == overall_score < 700000
        major_improvements_needed == overall_score < 500000
    IN  [research_ready |-> research_ready,
         production_ready |-> production_ready,
         publication_ready |-> publication_ready,
         immediate_use |-> immediate_use,
         preprocessing_required |-> preprocessing_required,
         major_improvements_needed |-> major_improvements_needed,
         primary_state |-> IF immediate_use THEN "immediate_use"
                           ELSE IF production_ready THEN "production_ready"
                           ELSE IF research_ready THEN "research_ready"
                           ELSE IF preprocessing_required THEN "preprocessing_required"
                           ELSE "major_improvements_needed"]

\* UtilityScoreSynthesizerTool.execute on inputs for which no exception is
\* raised.  The reported scores are round(., 1), in tenths of a point.
UtilitySynthesizer(ar, persona_tags, contextual_scores) ==
    LET data_integrity_score == calculate_data_integrity_score(ar)
        max_potential_analysis == identify_maximum_potential(contextual_scores, persona_tags)
        overall_utility_score ==
            synthesize_overall_score(data_integrity_score, max_potential_analysis.highest_score)
    IN  [success |-> TRUE,
         overall_utility_score |-> RoundDiv(overall_utility_score, 1000),
         primary_persona |-> max_potential_analysis.primary_persona,
         data_integrity_score |-> RoundDiv(data_integrity_score, 100),
         utility_grade |-> determine_utility_grade(overall_utility_score),
         readiness_assessment |-> assess_readiness(data_integrity_score, overall_utility_score),
         max_potential |-> max_potential_analysis]

(***************************************************************************)
(* MissingValueAnalyzerTool and DuplicateRecordDetectorTool                *)
(***************************************************************************)

\* The integrity score of MissingValueAnalyzerTool.execute before rounding,
\* in thousandths, for overall_missing_pct in hundredths of a percent.
missing_integrity_score(overall_missing_pct) ==
    IF overall_missing_pct = 0 THEN 100000
    ELSE IF overall_missing_pct <= 100 THEN 95000
    ELSE IF overall_missing_pct <= 500 THEN 85000 - (overall_missing_pct - 100) * 20
    ELSE IF overall_missing_pct <= 2000 THEN 77000 - (overall_missing_pct - 500) * 30
    ELSE Max2(20000, 32000 - (overall_missing_pct - 2000) * 6)

\* MissingValueAnalyzerTool.execute on data with total_cells cells of which
\* missing_cells are null; the percentage is reported in hundredths (round(.,
\* 2)) and the score in hundredths (round(., 1)).
MissingValueAnalyzer(data) ==
    LET overall_missing_pct == (data.missing_cells * 10000) \div data.total_cells
    IN  [success |-> TRUE,
         analysis |-> [overall_stats |->
             [missing_percentage |-> overall_missing_pct,
              integrity_score |->
                  10 * RoundDiv(missing_integrity_score(overall_missing_pct), 100)]]]

\* The duplicate score as it would be if the band above 20% started from 50.
duplicate_integrity_score_from_50(full_duplicate_pct) ==
    IF full_duplicate_pct = 0 THEN 100000
    ELSE IF full_duplicate_pct <= 100 THEN 95000 - full_duplicate_pct * 20
    ELSE IF full_duplicate_pct <= 500 THEN 90000 - full_duplicate_pct * 30
    ELSE IF full_duplicate_pct <= 2000 THEN 75000 - (full_duplicate_pct - 500) * 20
    ELSE Max2(10000, 50000 - (full_duplicate_pct - 2000) * 15)

\* The integrity score of DuplicateRecordDetectorTool.execute before
\* rounding, in thousandths, for full_duplicate_pct in hundredths of a percent.
duplicate_integrity_score(full_duplicate_pct) ==
    IF full_duplicate_pct = 0 THEN 100000
    ELSE IF full_duplicate_pct <= 100 THEN 95000 - full_duplicate_pct * 20
    ELSE IF full_duplicate_pct <= 500 THEN 90000 - full_duplicate_pct * 30
    ELSE IF full_duplicate_pct <= 2000 THEN 75000 - (full_duplicate_pct - 500) * 20
    ELSE Max2(10000, 45000 - (full_duplicate_pct - 2000) * 15)

\* DuplicateRecordDetectorTool.execute on data with total_rows rows of which
\* duplicate_rows repeat an earlier row.
DuplicateRecordDetector(data) ==
    LET full_duplicate_pct == (data.duplicate_rows * 10000) \div data.total_rows
    IN  [success |-> TRUE,
         analysis |-> [overall_stats |->
             [duplication_percentage |-> full_duplicate_pct,
              integrity_score |->
                  10 * RoundDiv(duplicate_integrity_score(full_duplicate_pct), 100)]]]

(***************************************************************************)
(* OutlierDetectionEngineTool                                              *)
(***************************************************************************)

\* The three detection methods, in the order execute applies them.
OutlierMethods == <<"zscore", "iqr", "isolation_forest">>

\* col_outlier_indices of one numeric column: the rows that any method
\* flagged.  A column is a record of the three sets of flagged rows.
col_outlier_indices(col) == col.zscore \cup col.iqr \cup col.isolation_forest

\* consensus_outliers of one numeric column: the rows that two methods or
\* more flagged.
consensus_outliers(col) ==
    {idx \in col_outlier_indices(col) :
        Cardinality({i \in 1..Len(OutlierMethods) : idx \in col[OutlierMethods[i]]}) >= 2}

\* overall_outliers as it would be if it collected the consensus outliers of
\* the columns.
overall_consensus_outliers(columns) ==
    UNION {consensus_outliers(columns[c]) : c \in 1..Len(columns)}

\* overall_outliers: the union over the numeric columns of col_outlier_indices
overall_outliers(columns) ==
    UNION {col_outlier_indices(columns[c]) : c \in 1..Len(columns)}

\* The quality score of OutlierDetectionEngineTool.execute before rounding,
\* in thousandths, for overall_outlier_pct in hundredths of a percent.
outlier_quality_score(overall_outlier_pct) ==
    IF overall_outlier_pct <= 100 THEN 100000
    ELSE IF overall_outlier_pct <= 300 THEN 95000 - (overall_outlier_pct - 100) * 25
    ELSE IF overall_outlier_pct <= 500 THEN 90000 - (overall_outlier_pct - 300) * 50
    ELSE IF overall_outlier_pct <= 1000 THEN 80000 - (overall_outlier_pct - 500) * 30
    ELSE IF overall_outlier_pct <= 2000 THEN 65000 - (overall_outlier_pct - 1000) * 20
    ELSE Max2(25000, 45000 - (overall_outlier_pct - 2000) * 10)

\* OutlierDetectionEngineTool.execute with the default methods on data with
\* total_rows rows and the numeric columns data.columns (one at least, no
\* null cell); percentages in hundredths, the score in hundredths.
OutlierDetectionEngine(data) ==
    LET overall_outlier_pct ==
            (Cardinality(overall_outliers(data.columns)) * 10000) \div data.total_rows
    IN  [success |-> TRUE,
         analysis |->
            [overall_stats |->
                [outlier_rows |-> Cardinality(overall_outliers(data.columns)),
                 outlier_percentage |-> overall_outlier_pct,
                 quality_score |-> 10 * RoundDiv(outlier_quality_score(overall_outlier_pct), 100)],
             column_analysis |->
                [c \in 1..Len(data.columns) |->
                    [consensus_outliers |-> consensus_outliers(data.columns[c]),
                     total_unique_outliers |->
                         Cardinality(col_outlier_indices(data.columns[c]))]]]]

(***************************************************************************)
(* ClassBalanceAssessorTool                                                *)
(***************************************************************************)

\* The balance level of _analyze_class_balance for a classification task,
\* min_pct in hundredths of a percent.
balance_level(task_type, min_pct) ==
    IF task_type = "binary_classification"
    THEN (IF min_pct >= 4000 THEN "excellent"
          ELSE IF min_pct >= 3000 THEN "good"
          ELSE IF min_pct >= 2000 THEN "fair"
          ELSE IF min_pct >= 1000 THEN "imbalanced"
          ELSE "severely_imbalanced")
    ELSE (IF min_pct >= 1500 THEN "excellent"
          ELSE IF min_pct >= 1000 THEN "good"
          ELSE IF min_pct >= 500 THEN "fair"
          ELSE IF min_pct >= 200 THEN "imbalanced"
          ELSE "severely_imbalanced")

\* _analyze_class_balance for class_counts in the order of value_counts
\* (largest first); percentages and the ratio in hundredths.
analyze_class_balance(class_counts, task_type) ==
    LET total == SumSeq(class_counts)
        minority == class_counts[Len(class_counts)]
        min_pct == (minority * 10000) \div total
    IN  [majority_class |-> [count |-> class_counts[1],
                             percentage |-> RoundDiv(class_counts[1] * 10000, total)],
         minority_class |-> [count |-> minority,
                             percentage |-> RoundDiv(minority * 10000, total)],
         imbalance_ratio |-> RoundDiv(class_counts[1] * 100, minority),
         balance_level |-> balance_level(task_type, min_pct)]

\* _calculate_balance_score for a classification task, in thousandths.
calculate_balance_score(balance_analysis, task_type) ==
    LET level == balance_analysis.balance_level
        minority_pct == balance_analysis.minority_class.percentage
        score ==
            IF task_type = "binary_classification"
            THEN (IF level = "excellent" THEN 100000
                  ELSE IF level = "good" THEN 90000 - (4000 - minority_pct) * 15
                  ELSE IF level = "fair" THEN 75000 - (3000 - minority_pct) * 20
                  ELSE IF level = "imbalanced" THEN 60000 - (2000 - minority_pct) * 25
                  ELSE Max2(20000, 35000 - (1000 - minority_pct) * 15))
            ELSE (IF level = "excellent" THEN 95000
                  ELSE IF level = "good" THEN 85000 - (1500 - minority_pct) * 20
                  ELSE IF level = "fair" THEN 70000 - (1000 - minority_pct) * 25
                  ELSE IF level = "imbalanced" THEN 55000 - (500 - minority_pct) * 30
                  ELSE Max2(15000, 25000 - (200 - minority_pct) * 50))
    IN  Max2(0, score)

\* ClassBalanceAssessorTool.execute on a target column without null cells
\* whose value counts are class_counts: two values are a binary task, three
\* a multiclass task.
ClassBalanceAssessor(class_counts) ==
    LET task_type == IF Len(class_counts) = 2 THEN "binary_classification"
                     ELSE "multiclass_classification"
        balance_analysis == analyze_class_balance(class_counts, task_type)
    IN  [success |-> TRUE,
         analysis |->
            [target_info |-> [task_type |-> task_type,
                              total_samples |-> SumSeq(class_counts),
                              unique_classes |-> Len(class_counts)],
             balance_metrics |-> balance_analysis,
             balance_score |->
                 10 * RoundDiv(calculate_balance_score(balance_analysis, task_type), 100)]]

(***************************************************************************)
(* Inputs of the scoring tools                                             *)
(***************************************************************************)

\* An analyzer output that is not a key of analysis_results, and the output
\* of an analyzer that failed (no score fields).
Absent == [absent |-> TRUE]
Failed == [success |-> FALSE, error |-> "failed"]

MissingValueOptions == <<
    Absent, Failed,
    [success |-> TRUE, overall_missing_percentage |-> 1500, integrity_score |-> 4700] >>

TypeConsistencyOptions == <<
    Absent,
    [success |-> TRUE, consistency_score |-> 7000, type_issues |-> <<"c1", "c2", "c3">>] >>

DuplicateOptions == <<
    Absent,
    [success |-> TRUE, duplicate_percentage |-> 1205, integrity_score |-> 6090] >>

ClassBalanceOptions == <<
    Absent,
    [success |-> TRUE, balance_score |-> 10000, imbalance_ratio |-> 100,
     minority_class |-> [percentage |-> 5000], balance_level |-> "excellent"],
    [success |-> TRUE, balance_score |-> 1500, imbalance_ratio |-> 19900,
     minority_class |-> [percentage |-> 50], balance_level |-> "severely_imbalanced"] >>

OutlierOptions == <<
    Absent,
    [success |-> TRUE, overall_outlier_percentage |-> 1200, outlier_score |-> 4000] >>

CorrelationOptions == <<
    Absent,
    [success |-> TRUE, multicollinearity_score |-> 7000, multicollinearity_risk |-> "high",
     high_correlations |-> <<"p1", "p2", "p3">>] >>

MlPerformanceOptions == <<
    Absent,
    [success |-> TRUE, ml_usability_score |-> 9000],
    [success |-> TRUE, ml_usability_score |-> 3000] >>

FeatureImportanceOptions == <<
    Absent,
    [success |-> TRUE, information_score |-> 8000,
     information_distribution |-> [information_concentration |-> "medium",
                                   features_above_5pct |-> 4]] >>

SeparabilityOptions == <<
    Absent,
    [success |-> TRUE, separability_score |-> 3000] >>

DataProfileOptions == <<
    Absent,
    [success |-> TRUE,
     basic_info |-> [total_rows |-> 20000, total_columns |-> 12,
                     column_names |-> <<"age", "zip_code", "amount">>]] >>

ToolKeys == <<"missing_value_analysis", "type_consistency_analysis", "duplicate_analysis",
              "class_balance_analysis", "outlier_analysis", "correlation_analysis",
              "ml_performance_analysis", "feature_importance_analysis",
              "separability_analysis", "data_profile">>

ToolOptions == <<MissingValueOptions, TypeConsistencyOptions, DuplicateOptions,
                 ClassBalanceOptions, OutlierOptions, CorrelationOptions,
                 MlPerformanceOptions, FeatureImportanceOptions,
                 SeparabilityOptions, DataProfileOptions>>

\* The analysis_results dictionary for one choice of option per key.
MakeAnalysisResults(choice) ==
    LET present == {i \in 1..Len(ToolKeys) : ToolOptions[i][choice[i]] # Absent}
    IN  [k \in {ToolKeys[i] : i \in present} |->
            LET i == CHOOSE i \in present : ToolKeys[i] = k
            IN  ToolOptions[i][choice[i]]]

\* One option per key.  The correlation mapper is only run on data for
\* which the outlier engine is run too (_select_optimal_tools), so its output
\* is present only together with the outlier output.
ToolChoices ==
    {c \in {<<c1, c2, c3, c4, c5, c6, c7, c8, c9, c10>> :
               c1 \in 1..Len(ToolOptions[1]), c2 \in 1..Len(ToolOptions[2]),
               c3 \in 1..Len(ToolOptions[3]), c4 \in 1..Len(ToolOptions[4]),
               c5 \in 1..Len(ToolOptions[5]), c6 \in 1..Len(ToolOptions[6]),
               c7 \in 1..Len(ToolOptions[7]), c8 \in 1..Len(ToolOptions[8]),
               c9 \in 1..Len(ToolOptions[9]), c10 \in 1..Len(ToolOptions[10])} :
        ToolOptions[6][c[6]] # Absent => ToolOptions[5][c[5]] # Absent}

ToolInputs == {MakeAnalysisResults(c) : c \in ToolChoices}

(***************************************************************************)
(* The scoring tools applied in sequence to one analysis_results           *)
(***************************************************************************)

InitTools ==
    /\ pc = "persona"
    /\ dataset = NoResult
    /\ tools_to_run = <<>>
    /\ executed = <<>>
    /\ analysis_results \in ToolInputs
    /\ persona_result = NoResult
    /\ scoring_result = NoResult
    /\ synthesis_result = NoResult
    /\ result = NoResult
    /\ runs = 1
    /\ first_run = NoResult
    /\ float_ties \in {"down", "up"}
    /\ sent = <<>>
    /\ active_requests = EmptyDict
    /\ completed_results = EmptyDict
    /\ legal_runs = {}
    /\ validation_results = EmptyDict
    /\ validation_status = EmptyDict
    /\ background_tasks = EmptyDict
    /\ received = EmptyDict

\* dataset_persona_tagger on analysis_results
TagPersonas ==
    /\ pc = "persona"
    /\ persona_result' = PersonaTagger(analysis_results)
    /\ executed' = Append(executed, "dataset_persona_tagger")
    /\ pc' = "scoring"
    /\ UNCHANGED <<dataset, tools_to_run, analysis_results, scoring_result,
                   synthesis_result, result, runs, first_run, float_ties, sent,
                   active_requests, completed_results, legal_runs,
                   validation_results, validation_status, background_tasks, received>>

\* contextual_scoring_engine on analysis_results and the persona tags
ScoreContexts ==
    /\ pc = "scoring"
    /\ \E relevant_lenses \in relevant_lens_lists(persona_result.persona_tags) :
            scoring_result' = ContextualScoring(analysis_results, relevant_lenses)
    /\ executed' = Append(executed, "contextual_scoring_engine")
    /\ pc' = "synthesis"
    /\ UNCHANGED <<dataset, tools_to_run, analysis_results, persona_result,
                   synthesis_result, result, runs, first_run, float_ties, sent,
                   active_requests, completed_results, legal_runs,
                   validation_results, validation_status, background_tasks, received>>

\* utility_score_synthesizer on analysis_results, the persona tags and the
\* contextual scores
Synthesize ==
    /\ pc = "synthesis"
    /\ synthesis_result' = UtilitySynthesizer(analysis_results, persona_result.persona_tags,
                                               scoring_result.contextual_scores)
    /\ executed' = Append(executed, "utility_score_synthesizer")
    /\ pc' = "synthesized"
    /\ UNCHANGED <<dataset, tools_to_run, analysis_results, persona_result,
                   scoring_result, result, runs, first_run, float_ties, sent,
                   active_requests, completed_results, legal_runs,
                   validation_results, validation_status, background_tasks, received>>

\* The same analysis_results are analysed again (in a new process, so with
\* another string hash seed); the results of the first run are remembered.
RunAgain ==
    /\ pc = "synthesized"
    /\ runs < MaxRuns
    /\ runs' = runs + 1
    /\ first_run' = IF runs = 1
                    THEN [persona_result |-> persona_result,
                          scoring_result |-> scoring_result,
                          synthesis_result |-> synthesis_result]
                    ELSE first_run
    /\ persona_result' = NoResult
    /\ scoring_result' = NoResult
    /\ synthesis_result' = NoResult
    /\ executed' = <<>>
    /\ pc' = "persona"
    /\ UNCHANGED <<dataset, tools_to_run, analysis_results, result, float_ties, sent,
                   active_requests, completed_results, legal_runs,
                   validation_results, validation_status, background_tasks, received>>

NextTools == TagPersonas \/ ScoreContexts \/ Synthesize

Spec == InitTools /\ [][NextTools]_vars

\* The same tools, run MaxRuns times on each of a smaller family of inputs
\* (the outputs of the completeness and class balance analyzers and the data
\* profile vary, the other analyzer outputs are missing).
RepeatKeys == {"missing_value_analysis", "class_balance_analysis", "data_profile"}

InitRepeat ==
    /\ InitTools
    /\ DOMAIN analysis_results \subseteq RepeatKeys

NextRepeat == TagPersonas \/ ScoreContexts \/ Synthesize \/ RunAgain

SpecRepeat == InitRepeat /\ [][NextRepeat]_vars

\* A series of requests to the same persona tagger instance, each on any
\* input of a small family (the class balance output and the data profile
\* vary).  first_run remembers the result of the first request, the result
\* of the previous one, and whether a request on other inputs came between.
MaxRequests == 3

TaggerKeys == {"class_balance_analysis", "data_profile"}

TaggerInputs == {ar \in ToolInputs : DOMAIN ar \subseteq TaggerKeys}

InitTagger ==
    /\ InitTools
    /\ analysis_results \in TaggerInputs

TagAnother ==
    /\ pc = "scoring"
    /\ runs < MaxRequests
    /\ runs' = runs + 1
    /\ \E next_input \in TaggerInputs :
          /\ analysis_results' = next_input
          /\ first_run' = IF runs = 1
                          THEN [persona_result |-> persona_result,
                                analysis_results |-> analysis_results,
                                previous |-> persona_result,
                                other_between |-> FALSE]
                          ELSE [first_run EXCEPT
                                  !.previous = persona_result,
                                  !.other_between =
                                      @ \/ analysis_results # first_run.analysis_results]
    /\ persona_result' = NoResult
    /\ executed' = <<>>
    /\ pc' = "persona"
    /\ UNCHANGED <<dataset, tools_to_run, scoring_result, synthesis_result, result,
                   float_ties, sent,
                   active_requests, completed_results, legal_runs,
                   validation_results, validation_status, background_tasks, received>>

NextTagger == TagPersonas \/ TagAnother

SpecTagger == InitTagger /\ [][NextTagger]_vars

\* The synthesizer alone, on a grid of outputs of the three integrity
\* analyzers (scores in hundredths) and of general purpose lens scores (in
\* tenths).  The grid has scores next to the cutoffs of the grades and of the
\* readiness flags.
IntegrityGrid == {5000, 7000, 7500, 8000, 8990, 9000, 10000}

LensScoreGrid == {300, 500, 600, 645, 700, 750, 800, 875, 900, 1000}

SynthesizerInputs ==
    {[missing_value_analysis |->
         [success |-> TRUE, overall_missing_percentage |-> 100, integrity_score |-> m],
      type_consistency_analysis |->
         [success |-> TRUE, consistency_score |-> t, type_issues |-> <<>>],
      duplicate_analysis |->
         [success |-> TRUE, duplicate_percentage |-> 100, integrity_score |-> d]] :
        m \in IntegrityGrid, t \in IntegrityGrid, d \in IntegrityGrid}

InitSynthesizer ==
    /\ pc = "synthesis"
    /\ dataset = NoResult
    /\ tools_to_run = <<>>
    /\ executed = <<"dataset_persona_tagger", "contextual_scoring_engine">>
    /\ analysis_results \in SynthesizerInputs
    /\ persona_result = PersonaTagger(analysis_results)
    /\ \E h \in LensScoreGrid :
          scoring_result =
              [success |-> TRUE,
               contextual_scores |-> [keys |-> <<"general_purpose_score">>,
                                      val |-> [n \in {"general_purpose_score"} |-> h]],
               best_context |-> [name |-> "general_purpose_score", score |-> h]]
    /\ synthesis_result = NoResult
    /\ result = NoResult
    /\ runs = 1
    /\ first_run = NoResult
    /\ float_ties \in {"down", "up"}
    /\ sent = <<>>
    /\ active_requests = EmptyDict
    /\ completed_results = EmptyDict
    /\ legal_runs = {}
    /\ validation_results = EmptyDict
    /\ validation_status = EmptyDict
    /\ background_tasks = EmptyDict
    /\ received = EmptyDict

NextSynthesizer == Synthesize

SpecSynthesizer == InitSynthesizer /\ [][NextSynthesizer]_vars

(***************************************************************************)
(* The validation agent's pipeline (_perform_complete_analysis)            *)
(***************************************************************************)

\* What the agent reads of a loaded DataFrame: its shape, the number of
\* numeric and of object columns, whether a column carries one of the common
\* target names, and the cardinality and type of the last column and of the
\* column the ML tools take as target.
Frame(rows, features, numeric, categorical, named_target, last_nunique, last_numeric) ==
    [rows |-> rows, features |-> features, numeric |-> numeric,
     categorical |-> categorical, named_target |-> named_target,
     last_nunique |-> last_nunique, last_numeric |-> last_numeric]

\* The datasets requests are made for: a single text column of 10 rows; 25
\* rows and 60 rows of three text columns, the last with two values; 20000
\* rows of twelve columns, eight numeric, with a column named "label" of two
\* values.
Datasets == {
    Frame(10, 1, 0, 1, FALSE, 10, FALSE),
    Frame(25, 3, 0, 3, FALSE, 2, FALSE),
    Frame(60, 3, 0, 3, FALSE, 2, FALSE),
    Frame(20000, 12, 8, 4, TRUE, 2, TRUE) }

\* _identify_target_column: a column with a common target name (in these
\* datasets the last column, named "label"), else the last column when it
\* has few values or is numeric, else None.
identify_target_column(df) ==
    IF df.named_target THEN Some("label")
    ELSE IF df.features > 1
              /\ (df.last_nunique <= Min2(20, df.rows \div 10) \/ df.last_numeric)
         THEN Some("last")
         ELSE None

\* _select_optimal_tools as it would be if the outlier engine and the
\* correlation mapper were selected for every dataset.
select_tools_whatever_the_columns(df) ==
    LET core_tools == <<"missing_value_analyzer", "duplicate_record_detector",
                        "data_type_consistency_checker">>
        target_column == identify_target_column(df)
        ml == IF df.rows >= 20 /\ df.features >= 2
              THEN (IF df.features >= 2 THEN <<"feature_importance_analyzer">> ELSE <<>>)
                   \o (IF df.rows >= 50 THEN <<"baseline_model_performance">> ELSE <<>>)
                   \o (IF target_column # None \/ df.features >= 2
                       THEN <<"data_separability_scorer">>
                            \o (IF df.last_nunique <= Min2(50, df.rows \div 5)
                                THEN <<"class_balance_assessor">> ELSE <<>>)
                       ELSE <<>>)
              ELSE <<>>
        selected == core_tools \o <<"outlier_detection_engine", "feature_correlation_mapper">>
                    \o ml
        expensive_tools == {"baseline_model_performance", "data_separability_scorer"}
        Cheap(name) == name \notin expensive_tools
    IN  IF df.rows > 10000 THEN SelectSeq(selected, Cheap) ELSE selected

\* _select_optimal_tools: the names of the tools to run, in order.
select_optimal_tools(df) ==
    LET core_tools == <<"missing_value_analyzer", "duplicate_record_detector",
                        "data_type_consistency_checker">>
        outlier == IF df.numeric > 0 THEN <<"outlier_detection_engine">> ELSE <<>>
        correlation == IF df.numeric >= 2 THEN <<"feature_correlation_mapper">> ELSE <<>>
        target_column == identify_target_column(df)
        ml == IF df.rows >= 20 /\ df.features >= 2
              THEN (IF df.features >= 2 THEN <<"feature_importance_analyzer">> ELSE <<>>)
                   \o (IF df.rows >= 50 THEN <<"baseline_model_performance">> ELSE <<>>)
                   \o (IF target_column # None \/ df.features >= 2
                       THEN <<"data_separability_scorer">>
                            \o (IF df.last_nunique <= Min2(50, df.rows \div 5)
                                THEN <<"class_balance_assessor">> ELSE <<>>)
                       ELSE <<>>)
              ELSE <<>>
        selected == core_tools \o outlier \o correlation \o ml
        expensive_tools == {"baseline_model_performance", "data_separability_scorer"}
        Cheap(name) == name \notin expensive_tools
    IN  IF df.rows > 10000 THEN SelectSeq(selected, Cheap) ELSE selected

\* analysis_results[f"{tool_name}_analysis"]
ResultKey(tool_name) ==
    CASE tool_name = "missing_value_analyzer" -> "missing_value_analyzer_analysis"
      [] tool_name = "duplicate_record_detector" -> "duplicate_record_detector_analysis"
      [] tool_name = "data_type_consistency_checker" -> "data_type_consistency_checker_analysis"
      [] tool_name = "outlier_detection_engine" -> "outlier_detection_engine_analysis"
      [] tool_name = "feature_correlation_mapper" -> "feature_correlation_mapper_analysis"
      [] tool_name = "feature_importance_analyzer" -> "feature_importance_analyzer_analysis"
      [] tool_name = "baseline_model_performance" -> "baseline_model_performance_analysis"
      [] tool_name = "data_separability_scorer" -> "data_separability_scorer_analysis"
      [] tool_name = "class_balance_assessor" -> "class_balance_assessor_analysis"

\* What a foundational tool can return: its failure result (its own except
\* branch, or the agent's when the call raises), or a success result with
\* the scores where the tool puts them.  Scores are in hundredths.
ToolOutcomes(tool_name) ==
    {Failed} \cup
    CASE tool_name = "data_profiler" ->
            {[success |-> TRUE, profile |-> [basic_info |-> [total_rows |-> 25]]]}
      [] tool_name = "missing_value_analyzer" ->
            {[success |-> TRUE,
              analysis |-> [overall_stats |-> [missing_percentage |-> 0,
                                               integrity_score |-> 10000]]],
             [success |-> TRUE,
              analysis |-> [overall_stats |-> [missing_percentage |-> 1500,
                                               integrity_score |-> 4700]]]}
      [] tool_name = "duplicate_record_detector" ->
            {[success |-> TRUE,
              analysis |-> [overall_stats |-> [duplication_percentage |-> 1205,
                                               integrity_score |-> 6090]]]}
      [] tool_name = "data_type_consistency_checker" ->
            {[success |-> TRUE,
              analysis |-> [overall_stats |-> [schema_mismatches |-> 3,
                                               consistency_score |-> 7000]]]}
      [] tool_name = "outlier_detection_engine" ->
            {[success |-> TRUE,
              analysis |-> [overall_stats |-> [outlier_percentage |-> 1200,
                                               quality_score |-> 4000]]]}
      [] tool_name = "feature_correlation_mapper" ->
            {[success |-> TRUE, analysis |-> [matrix_info |-> [features_analyzed |-> 8]]]}
      [] tool_name = "feature_importance_analyzer" ->
            {[success |-> TRUE, analysis |-> [information_score |-> 8000]]}
      [] tool_name = "baseline_model_performance" ->
            {[success |-> TRUE, analysis |-> [ml_usability_score |-> 9000]]}
      [] tool_name = "data_separability_scorer" ->
            {[success |-> TRUE, analysis |-> [separability_score |-> 3000]]}
      [] tool_name = "class_balance_assessor" ->
            {[success |-> TRUE,
              analysis |-> [target_info |-> [unique_classes |-> 2],
                            balance_metrics |-> [minority_class |-> [percentage |-> 5000],
                                                 imbalance_ratio |-> 100],
                            balance_score |-> 10000]],
             [success |-> TRUE,
              analysis |-> [target_info |-> [unique_classes |-> 2],
                            balance_metrics |-> [minority_class |-> [percentage |-> 50],
                                                 imbalance_ratio |-> 19900],
                            balance_score |-> 2080]]}

\* The tools that give up on a table without numeric columns: each returns
\* success False with an error that names the reason.
NumericTools == {"outlier_detection_engine", "feature_correlation_mapper",
                 "feature_importance_analyzer", "baseline_model_performance",
                 "data_separability_scorer"}

\* The outcomes of a tool on the table df: the minority class of a class
\* balance result has one row at least, and a tool that needs numeric columns
\* fails on a table that has none.
PossibleOutcomes(df, tool_name) ==
    {r \in ToolOutcomes(tool_name) :
        /\ (tool_name = "class_balance_assessor" /\ r.success) =>
              r.analysis.balance_metrics.minority_class.percentage * df.rows >= 10000
        /\ (tool_name \in NumericTools /\ df.numeric = 0) => ~r.success}

\* failed_tools, the names whose result has no true "success"
failed_tools(ar) == {name \in DOMAIN ar : ~Get(ar[name], "success", FALSE)}

\* The check as it would be if half of the results failing were enough.
half_or_more_failed(ar) == Cardinality(failed_tools(ar)) >= Cardinality(DOMAIN ar) \div 2

\* len(failed_tools) > len(analysis_results) // 2
too_many_failed(ar) == Cardinality(failed_tools(ar)) > Cardinality(DOMAIN ar) \div 2

\* The score _extract_integrity_scores reports for one successful tool:
\* result.get(key, 0), and when that is 0, result["analysis"].get(key, 0).
extracted_score(tool_result, key) ==
    LET top == Get(tool_result, key, 0)
    IN  IF top = 0 /\ "analysis" \in DOMAIN tool_result
        THEN Get(tool_result.analysis, key, 0)
        ELSE top

\* _extract_integrity_scores
extract_integrity_scores(ar) ==
    LET Succeeded(k) == k \in DOMAIN ar /\ ar[k].success
        keys == (IF Succeeded("missing_value_analyzer_analysis")
                 THEN {"completeness"} ELSE {})
                \cup (IF Succeeded("duplicate_record_detector_analysis")
                      THEN {"duplicates"} ELSE {})
                \cup (IF Succeeded("data_type_consistency_checker_analysis")
                      THEN {"consistency"} ELSE {})
    IN  [k \in keys |->
            CASE k = "completeness" ->
                    extracted_score(ar["missing_value_analyzer_analysis"], "integrity_score")
              [] k = "duplicates" ->
                    extracted_score(ar["duplicate_record_detector_analysis"], "integrity_score")
              [] k = "consistency" ->
                    extracted_score(ar["data_type_consistency_checker_analysis"],
                                    "consistency_score")]

\* _create_error_result: the fields of DatasetAnalysisResult it sets, and
\* the defaults of the model class for the others.
create_error_result(errors, summary) ==
    [success |-> FALSE,
     dataset_info |-> EmptyDict,
     raw_tool_outputs |-> [error |-> [summary |-> summary, errors |-> errors]],
     persona_tags |-> <<>>,
     primary_persona |-> "#Unknown",
     executive_summary |-> summary,
     recommendations |-> <<>>,
     next_steps |-> <<>>,
     errors |-> errors,
     warnings |-> <<>>]

InitPipeline ==
    /\ pc = "load"
    /\ dataset \in Datasets
    /\ tools_to_run = <<>>
    /\ executed = <<>>
    /\ analysis_results = EmptyDict
    /\ persona_result = NoResult
    /\ scoring_result = NoResult
    /\ synthesis_result = NoResult
    /\ result = NoResult
    /\ runs = 1
    /\ first_run = NoResult
    /\ float_ties \in {"down", "up"}
    /\ sent = <<>>
    /\ active_requests = EmptyDict
    /\ completed_results = EmptyDict
    /\ legal_runs = {}
    /\ validation_results = EmptyDict
    /\ validation_status = EmptyDict
    /\ background_tasks = EmptyDict
    /\ received = EmptyDict

\* Step 1: data_loader.  The file loads, or the loader reports a failure
\* and the request ends with an error result.
LoadDataset ==
    /\ pc = "load"
    /\ executed' = Append(executed, "data_loader")
    /\ \E loaded \in BOOLEAN :
          IF loaded
          THEN /\ pc' = "profile"
               /\ UNCHANGED result
          ELSE /\ pc' = "done"
               /\ result' = create_error_result(<<"File not found">>, "Dataset loading failed")
    /\ UNCHANGED <<dataset, tools_to_run, analysis_results, persona_result,
                   scoring_result, synthesis_result, runs, first_run, float_ties, sent,
                   active_requests, completed_results, legal_runs,
                   validation_results, validation_status, background_tasks, received>>

\* _run_foundational_analysis up to its loop: data_profiler, then the
\* selection of the tools.
RunDataProfiler ==
    /\ pc = "profile"
    /\ \E profile_result \in ToolOutcomes("data_profiler") :
          analysis_results' = Put(analysis_results, "data_profiler", profile_result)
    /\ executed' = Append(executed, "data_profiler")
    /\ tools_to_run' = select_optimal_tools(dataset)
    /\ pc' = "tools"
    /\ UNCHANGED <<dataset, persona_result, scoring_result, synthesis_result, result,
                   runs, first_run, float_ties, sent,
                   active_requests, completed_results, legal_runs,
                   validation_results, validation_status, background_tasks, received>>

\* One iteration of the loop of _run_foundational_analysis.
RunTool ==
    /\ pc = "tools"
    /\ tools_to_run # <<>>
    /\ LET tool_name == Head(tools_to_run)
       IN  /\ \E tool_result \in PossibleOutcomes(dataset, tool_name) :
                 analysis_results' = Put(analysis_results, ResultKey(tool_name), tool_result)
           /\ executed' = Append(executed, tool_name)
    /\ tools_to_run' = Tail(tools_to_run)
    /\ UNCHANGED <<pc, dataset, persona_result, scoring_result, synthesis_result, result,
                   runs, first_run, float_ties, sent,
                   active_requests, completed_results, legal_runs,
                   validation_results, validation_status, background_tasks, received>>

\* The check for critical failures as it would be if it did not wait for the
\* loop over the selected tools to end.
CheckFailuresBeforeLoopEnds ==
    /\ pc = "tools"
    /\ IF too_many_failed(analysis_results)
       THEN /\ result' = create_error_result(<<"Too many analysis tools failed">>,
                                             "Critical analysis failure")
            /\ pc' = "done"
       ELSE /\ pc' = "persona"
            /\ UNCHANGED result
    /\ UNCHANGED <<dataset, tools_to_run, executed, analysis_results, persona_result,
                   scoring_result, synthesis_result, runs, first_run, float_ties, sent,
                   active_requests, completed_results, legal_runs,
                   validation_results, validation_status, background_tasks, received>>

\* The check for critical failures after the loop.
CheckFailures ==
    /\ pc = "tools"
    /\ tools_to_run = <<>>
    /\ IF too_many_failed(analysis_results)
       THEN /\ result' = create_error_result(<<"Too many analysis tools failed">>,
                                             "Critical analysis failure")
            /\ pc' = "done"
       ELSE /\ pc' = "persona"
            /\ UNCHANGED result
    /\ UNCHANGED <<dataset, tools_to_run, executed, analysis_results, persona_result,
                   scoring_result, synthesis_result, runs, first_run, float_ties, sent,
                   active_requests, completed_results, legal_runs,
                   validation_results, validation_status, background_tasks, received>>

\* Step 5: the DatasetAnalysisResult of a completed analysis.
CompileResult ==
    /\ pc = "synthesized"
    /\ result' =
          [success |-> TRUE,
           dataset_info |-> [shape |-> <<dataset.rows, dataset.features>>],
           raw_tool_outputs |->
               [integrity_tools |-> extract_integrity_scores(analysis_results),
                contextual_tools |-> scoring_result.contextual_scores,
                synthesis_result |-> synthesis_result,
                analysis_results |-> analysis_results],
           persona_tags |-> persona_result.persona_tags,
           primary_persona |-> persona_result.primary_persona,
           executive_summary |-> synthesis_result.utility_grade,
           recommendations |-> <<>>,
           next_steps |-> <<>>,
           errors |-> <<>>,
           warnings |-> <<>>]
    /\ pc' = "done"
    /\ UNCHANGED <<dataset, tools_to_run, executed, analysis_results, persona_result,
                   scoring_result, synthesis_result, runs, first_run, float_ties, sent,
                   active_requests, completed_results, legal_runs,
                   validation_results, validation_status, background_tasks, received>>

NextPipeline ==
    \/ LoadDataset
    \/ RunDataProfiler
    \/ RunTool
    \/ CheckFailures
    \/ TagPersonas
    \/ ScoreContexts
    \/ Synthesize
    \/ CompileResult

SpecPipeline == InitPipeline /\ [][NextPipeline]_vars

\* handle_analysis_request after _perform_complete_analysis has returned
\* its DatasetAnalysisResult.  For a successful result the summary that is
\* logged reads result.overall_utility_score, which is not a field of
\* DatasetAnalysisResult: the AttributeError is caught by the handler, whose
\* except branch builds a DatasetAnalysisResult without the required
\* raw_tool_outputs, and the validation error leaves the handler before
\* ctx.send.  For a failed result the number of errors is logged and the
\* result is sent.
HandleResult ==
    /\ pc = "done"
    /\ IF result.success
       THEN sent' = sent
       ELSE sent' = Append(sent, result)
    /\ pc' = "handled"
    /\ UNCHANGED <<dataset, tools_to_run, executed, analysis_results, persona_result,
                   scoring_result, synthesis_result, result, runs, first_run, float_ties,
                   active_requests, completed_results, legal_runs,
                   validation_results, validation_status, background_tasks, received>>

NextAgent == NextPipeline \/ HandleResult

SpecAgent == InitPipeline /\ [][NextAgent]_vars

\* The completeness and duplicate analyzers on tables of TableRows rows and
\* TableColumns columns that differ in the number of null cells and of
\* repeated rows.  The analyzers run in the order of the core tools; then the
\* table is replaced by one with more null cells or with more repeated rows,
\* everything else equal, and first_run remembers the table and its results.
TableRows == 1000

TableColumns == 2

DuplicateRowLevels == {0, 5, 10, 15, 50, 55, 200, 202, 300, 432, 434, 436, 600, 999}

MissingCellLevels == {0, 10, 20, 30, 100, 110, 400, 410, 800, 810, 1200, 2000}

\* Rows whose cells are all null repeat one another: a table with more null
\* cells than fit in all but one column has that many repeated rows at least.
Tables ==
    {t \in [total_rows : {TableRows}, total_cells : {TableRows * TableColumns},
            duplicate_rows : DuplicateRowLevels, missing_cells : MissingCellLevels] :
        t.duplicate_rows >= t.missing_cells - TableRows * (TableColumns - 1) - 1}

InitAnalyzers ==
    /\ pc = "missing_values"
    /\ dataset \in Tables
    /\ tools_to_run = <<>>
    /\ executed = <<>>
    /\ analysis_results = EmptyDict
    /\ persona_result = NoResult
    /\ scoring_result = NoResult
    /\ synthesis_result = NoResult
    /\ result = NoResult
    /\ runs = 1
    /\ first_run = NoResult
    /\ float_ties \in {"down", "up"}
    /\ sent = <<>>
    /\ active_requests = EmptyDict
    /\ completed_results = EmptyDict
    /\ legal_runs = {}
    /\ validation_results = EmptyDict
    /\ validation_status = EmptyDict
    /\ background_tasks = EmptyDict
    /\ received = EmptyDict

\* missing_value_analyzer on the table
RunMissingValueAnalyzer ==
    /\ pc = "missing_values"
    /\ analysis_results' = Put(analysis_results, ResultKey("missing_value_analyzer"),
                               MissingValueAnalyzer(dataset))
    /\ executed' = Append(executed, "missing_value_analyzer")
    /\ pc' = "duplicates"
    /\ UNCHANGED <<dataset, tools_to_run, persona_result, scoring_result, synthesis_result,
                   result, runs, first_run, float_ties, sent,
                   active_requests, completed_results, legal_runs,
                   validation_results, validation_status, background_tasks, received>>

\* duplicate_record_detector on the table
RunDuplicateRecordDetector ==
    /\ pc = "duplicates"
    /\ analysis_results' = Put(analysis_results, ResultKey("duplicate_record_detector"),
                               DuplicateRecordDetector(dataset))
    /\ executed' = Append(executed, "duplicate_record_detector")
    /\ pc' = "analyzed"
    /\ UNCHANGED <<dataset, tools_to_run, persona_result, scoring_result, synthesis_result,
                   result, runs, first_run, float_ties, sent,
                   active_requests, completed_results, legal_runs,
                   validation_results, validation_status, background_tasks, received>>

\* The next table: more null cells, or more repeated rows.
AnalyzeWorseTable ==
    /\ pc = "analyzed"
    /\ runs < MaxRuns
    /\ runs' = runs + 1
    /\ \E t \in Tables :
          /\ \/ /\ t.missing_cells > dataset.missing_cells
                /\ t.duplicate_rows = dataset.duplicate_rows
             \/ /\ t.duplicate_rows > dataset.duplicate_rows
                /\ t.missing_cells = dataset.missing_cells
          /\ dataset' = t
    /\ first_run' = [dataset |-> dataset, analysis_results |-> analysis_results]
    /\ analysis_results' = EmptyDict
    /\ executed' = <<>>
    /\ pc' = "missing_values"
    /\ UNCHANGED <<tools_to_run, persona_result, scoring_result, synthesis_result, result,
                   float_ties, sent,
                   active_requests, completed_results, legal_runs,
                   validation_results, validation_status, background_tasks, received>>

NextAnalyzers == RunMissingValueAnalyzer \/ RunDuplicateRecordDetector \/ AnalyzeWorseTable

SpecAnalyzers == InitAnalyzers /\ [][NextAnalyzers]_vars

\* The outlier engine on tables of OutlierTableRows rows with two numeric
\* columns; each method flags any of the rows SuspectRows of each column.
OutlierTableRows == 50

SuspectRows == {1, 2}

FlaggedColumns ==
    [zscore : SUBSET SuspectRows, iqr : SUBSET SuspectRows,
     isolation_forest : SUBSET SuspectRows]

OutlierTables ==
    {[total_rows |-> OutlierTableRows, columns |-> <<c1, c2>>] :
        c1 \in FlaggedColumns, c2 \in FlaggedColumns}

InitOutliers ==
    /\ pc = "outliers"
    /\ dataset \in OutlierTables
    /\ tools_to_run = <<>>
    /\ executed = <<>>
    /\ analysis_results = EmptyDict
    /\ persona_result = NoResult
    /\ scoring_result = NoResult
    /\ synthesis_result = NoResult
    /\ result = NoResult
    /\ runs = 1
    /\ first_run = NoResult
    /\ float_ties \in {"down", "up"}
    /\ sent = <<>>
    /\ active_requests = EmptyDict
    /\ completed_results = EmptyDict
    /\ legal_runs = {}
    /\ validation_results = EmptyDict
    /\ validation_status = EmptyDict
    /\ background_tasks = EmptyDict
    /\ received = EmptyDict

\* outlier_detection_engine on the table
RunOutlierDetectionEngine ==
    /\ pc = "outliers"
    /\ analysis_results' = Put(analysis_results, ResultKey("outlier_detection_engine"),
                               OutlierDetectionEngine(dataset))
    /\ executed' = Append(executed, "outlier_detection_engine")
    /\ pc' = "analyzed"
    /\ UNCHANGED <<dataset, tools_to_run, persona_result, scoring_result, synthesis_result,
                   result, runs, first_run, float_ties, sent,
                   active_requests, completed_results, legal_runs,
                   validation_results, validation_status, background_tasks, received>>

NextOutliers == RunOutlierDetectionEngine

SpecOutliers == InitOutliers /\ [][NextOutliers]_vars

\* The class balance assessor on target columns of TargetRows rows with two
\* or three classes.  The minority class has one of the listed numbers of
\* rows, on the band boundaries, next to them and between them; the other
\* rows are of the majority class (binary) or split between two larger
\* classes (multiclass).
TargetRows == 1000

BinaryMinorityRows == {6, 50, 98, 100, 150, 198, 200, 250, 298, 300, 350, 398, 400, 450, 500}

MulticlassMinorityRows == {6, 18, 20, 30, 48, 50, 80, 98, 100, 120, 148, 150, 200, 300}

Targets ==
    {[class_counts |-> <<TargetRows - c, c>>] : c \in BinaryMinorityRows} \cup
    {[class_counts |-> <<TargetRows - c - (TargetRows - c) \div 2, (TargetRows - c) \div 2, c>>] :
        c \in MulticlassMinorityRows}

InitBalance ==
    /\ pc = "class_balance"
    /\ dataset \in Targets
    /\ tools_to_run = <<>>
    /\ executed = <<>>
    /\ analysis_results = EmptyDict
    /\ persona_result = NoResult
    /\ scoring_result = NoResult
    /\ synthesis_result = NoResult
    /\ result = NoResult
    /\ runs = 1
    /\ first_run = NoResult
    /\ float_ties \in {"down", "up"}
    /\ sent = <<>>
    /\ active_requests = EmptyDict
    /\ completed_results = EmptyDict
    /\ legal_runs = {}
    /\ validation_results = EmptyDict
    /\ validation_status = EmptyDict
    /\ background_tasks = EmptyDict
    /\ received = EmptyDict

\* class_balance_assessor on the target column
RunClassBalanceAssessor ==
    /\ pc = "class_balance"
    /\ analysis_results' = Put(analysis_results, ResultKey("class_balance_assessor"),
                               ClassBalanceAssessor(dataset.class_counts))
    /\ executed' = Append(executed, "class_balance_assessor")
    /\ pc' = "analyzed"
    /\ UNCHANGED <<dataset, tools_to_run, persona_result, scoring_result, synthesis_result,
                   result, runs, first_run, float_ties, sent,
                   active_requests, completed_results, legal_runs,
                   validation_results, validation_status, background_tasks, received>>

\* The next target: as many classes, a larger minority class.
AssessMoreBalancedTarget ==
    /\ pc = "analyzed"
    /\ runs < MaxRuns
    /\ runs' = runs + 1
    /\ \E t \in Targets :
          /\ Len(t.class_counts) = Len(dataset.class_counts)
          /\ t.class_counts[Len(t.class_counts)] > dataset.class_counts[Len(dataset.class_counts)]
          /\ dataset' = t
    /\ first_run' = [dataset |-> dataset, analysis_results |-> analysis_results]
    /\ analysis_results' = EmptyDict
    /\ executed' = <<>>
    /\ pc' = "class_balance"
    /\ UNCHANGED <<tools_to_run, persona_result, scoring_result, synthesis_result, result,
                   float_ties, sent,
                   active_requests, completed_results, legal_runs,
                   validation_results, validation_status, background_tasks, received>>

NextBalance == RunClassBalanceAssessor \/ AssessMoreBalancedTarget

SpecBalance == InitBalance /\ [][NextBalance]_vars

(***************************************************************************)
(* OrchestratorAgent (agents/orchestrator_agent.py)                        *)
(*                                                                         *)
(* The agent's state is threaded through its methods as a record o of      *)
(* active_requests, completed_results, sent and legal_runs.  A method that *)
(* can raise returns [raised, o]: whether an exception left it, and the    *)
(* state it left behind.  An object is a record whose DOMAIN is its set of *)
(* attributes; scores are in tenths.                                       *)
(***************************************************************************)

\* What follows a call: Continue is applied to the outcome of the call.
AndThen(outcome, Continue(_)) == Continue(outcome)

\* The attributes of an OrchestratorAgent instance that are callable, with
\* the two result handlers among them.
OrchestratorMethodsWithHandlers ==
    {"_setup_handlers", "_discover_agents", "_start_comprehensive_validation",
     "_run_validation_analysis", "_run_legal_analysis",
     "_conditionally_trigger_legal_analysis", "_check_and_combine_results",
     "_combine_validation_results", "_generate_executive_summary",
     "_send_error_result", "get_result", "run",
     "handle_validation_result", "handle_legal_result"}

\* The methods of class OrchestratorAgent.  The message handlers are local
\* functions of _setup_handlers, registered with the uagents Agent, and are
\* not attributes of the instance.
OrchestratorMethods ==
    {"_setup_handlers", "_discover_agents", "_start_comprehensive_validation",
     "_run_validation_analysis", "_run_legal_analysis",
     "_conditionally_trigger_legal_analysis", "_check_and_combine_results",
     "_combine_validation_results", "_generate_executive_summary",
     "_send_error_result", "get_result", "run"}

\* _send_error_result: the error result is sent to the requester and the
\* request, if active, is removed.
send_error_result(o, requester, request_id, error_message) ==
    [o EXCEPT
        !.sent = Append(@, [to |-> requester, request_id |-> request_id,
                            success |-> FALSE, errors |-> error_message,
                            data_quality_score |-> 0,
                            validation_status |-> "failed",
                            legal_status |-> "failed"]),
        !.active_requests = [k \in (DOMAIN @) \ {request_id} |-> @[k]]]

\* _combine_validation_results on the data of one request: the combined
\* result, or raised when an attribute that is read is not there.
combine_validation_results(request_data) ==
    LET validation_result == request_data["validation_result"]
        legal_result == request_data["legal_result"]
        reads_utility == validation_result # None /\ validation_result[1].success
        legal_status == Get(request_data, "legal_status", "unknown")
    IN  IF reads_utility /\ "overall_utility_score" \notin DOMAIN validation_result[1]
        THEN [raised |-> TRUE, value |-> None]
        ELSE IF legal_result # None
                /\ ~ {"critical_recommendations", "key_findings"} \subseteq DOMAIN legal_result[1]
        THEN [raised |-> TRUE, value |-> None]
        ELSE [raised |-> FALSE,
              value |-> [request_id |-> request_data["request"].request_id,
                         success |-> TRUE, errors |-> "",
                         data_quality_score |->
                            IF reads_utility
                            THEN validation_result[1].overall_utility_score ELSE 0,
                         validation_status |-> request_data["validation_status"],
                         legal_status |-> request_data["legal_status"]]]

\* _check_and_combine_results: once both analyses are done the combined
\* result is stored and sent and the request removed; an exception while
\* combining sends an error result instead.
check_and_combine_results(o, request_id) ==
    IF request_id \notin DOMAIN o.active_requests
    THEN o
    ELSE LET request_data == o.active_requests[request_id]
             validation_done == request_data["validation_status"] \in {"completed", "failed"}
             legal_done == request_data["legal_status"] \in {"completed", "failed", "skipped"}
         IN  IF ~ (validation_done /\ legal_done)
             THEN o
             ELSE AndThen(combine_validation_results(request_data), LAMBDA combined :
                    IF combined.raised
                    THEN send_error_result(o, request_data["requester"], request_id, "combine")
                    ELSE [o EXCEPT
                            !.completed_results = Put(@, request_id, combined.value),
                            !.sent = Append(@, [to |-> request_data["requester"]]
                                               @@ combined.value),
                            !.active_requests =
                                [k \in (DOMAIN @) \ {request_id} |-> @[k]]])

\* The handler of LegalComplianceResult messages.
handle_legal_result(o, msg) ==
    IF msg.request_id \in DOMAIN o.active_requests
    THEN check_and_combine_results(
            [o EXCEPT !.active_requests[msg.request_id] =
                Put(Put(@, "legal_result", Some(msg)),
                    "legal_status", IF msg.success THEN "completed" ELSE "failed")],
            msg.request_id)
    ELSE o

\* _run_legal_analysis: the legal agent analyses the dataset and the result
\* is handed to self.handle_legal_result.  An exception in the try block
\* reaches the except branch, which builds a LegalComplianceResult from the
\* keyword arguments given there and hands it over in the same way; what is
\* raised in the except branch leaves the method.
run_legal_analysis(o, request_id) ==
    LET ran == [o EXCEPT !.legal_runs = @ \cup {request_id}]
        compliance == [request_id |-> request_id, success |-> TRUE,
                   overall_compliance_score |-> 800,
                   key_findings |-> <<>>, critical_recommendations |-> <<>>]
        required == {"request_id", "success", "dataset_name", "analysis_type",
                     "overall_risk_level", "legal_status", "requires_action",
                     "key_findings", "critical_recommendations", "analysis_timestamp"}
        arguments == {"request_id", "success", "dataset_name", "analysis_type",
                      "dataset_fingerprint", "verification_status", "originality_score",
                      "pii_risk_score", "pii_detected_entities", "compliance_summary",
                      "recommendations", "overall_compliance_score", "compliance_grade",
                      "timestamp", "processing_time_seconds", "errors"}
        error_result == [request_id |-> request_id, success |-> FALSE,
                         overall_compliance_score |-> 0]
    IN  IF "handle_legal_result" \in OrchestratorMethods
        THEN [raised |-> FALSE, o |-> handle_legal_result(ran, compliance)]
        ELSE IF required \subseteq arguments
        THEN [raised |-> FALSE, o |-> handle_legal_result(ran, error_result)]
        ELSE [raised |-> TRUE, o |-> ran]

\* _conditionally_trigger_legal_analysis: legal analysis runs when the
\* request data says it was requested, validation succeeded and the utility
\* or the integrity score reaches 50; otherwise it is marked skipped.
conditionally_trigger_legal_analysis(o, request_id, validation_result) ==
    LET request_data == o.active_requests[request_id]
        original_legal_requested == Get(request_data, "original_legal_request", FALSE)
        min_threshold == 500
        skipped == [o EXCEPT !.active_requests[request_id] =
                        Put(Put(@, "legal_status", "skipped"), "legal_result", None)]
    IN  IF ~ original_legal_requested
        THEN [raised |-> FALSE, o |-> skipped]
        ELSE IF ~ validation_result.success
        THEN [raised |-> FALSE, o |-> skipped]
        ELSE IF ~ {"overall_utility_score", "data_integrity_score"}
                    \subseteq DOMAIN validation_result
        THEN [raised |-> TRUE, o |-> o]
        ELSE IF validation_result.overall_utility_score >= min_threshold
                \/ validation_result.data_integrity_score >= min_threshold
        THEN run_legal_analysis(
                [o EXCEPT !.active_requests[request_id] = Put(@, "legal_status", "running")],
                request_id)
        ELSE [raised |-> FALSE, o |-> skipped]

\* The handler of DatasetAnalysisResult messages.
handle_validation_result(o, msg) ==
    IF msg.request_id \in DOMAIN o.active_requests
    THEN LET stored == [o EXCEPT !.active_requests[msg.request_id] =
                            Put(Put(@, "validation_result", Some(msg)),
                                "validation_status",
                                IF msg.success THEN "completed" ELSE "failed")]
         IN  AndThen(conditionally_trigger_legal_analysis(stored, msg.request_id, msg),
                     LAMBDA triggered :
                        IF triggered.raised
                        THEN triggered
                        ELSE [raised |-> FALSE,
                              o |-> check_and_combine_results(triggered.o,
                                                              msg.request_id)])
    ELSE [raised |-> FALSE, o |-> o]

\* _run_validation_analysis: the validation agent analyses the dataset and
\* the result is handed to self.handle_validation_result.  An exception in
\* the try block reaches the except branch, which builds a
\* DatasetAnalysisResult from the keyword arguments given there and hands it
\* over in the same way; what is raised in the except branch leaves the
\* method.
run_validation_analysis(o, request) ==
    LET analysis == request.analysis
        required == {"success", "request_id", "timestamp", "dataset_info",
                     "raw_tool_outputs", "persona_tags", "primary_persona",
                     "executive_summary", "recommendations", "next_steps"}
        arguments == {"success", "request_id", "timestamp", "dataset_info",
                      "integrity_scores", "statistical_scores", "ml_usability_scores",
                      "persona_tags", "primary_persona", "contextual_scores",
                      "overall_utility_score", "utility_grade", "data_integrity_score",
                      "executive_summary", "recommendations", "publication_readiness",
                      "next_steps", "errors"}
        error_result == [success |-> FALSE, request_id |-> request.request_id,
                         raw_tool_outputs |-> EmptyDict]
    IN  AndThen(IF "handle_validation_result" \in OrchestratorMethods
                THEN handle_validation_result(o, analysis)
                ELSE [raised |-> TRUE, o |-> o],
                LAMBDA attempt :
                    IF ~ attempt.raised
                    THEN attempt
                    ELSE IF required \subseteq arguments
                            /\ "handle_validation_result" \in OrchestratorMethods
                    THEN handle_validation_result(attempt.o, error_result)
                    ELSE [raised |-> TRUE, o |-> attempt.o])

\* _start_comprehensive_validation: raises when the dataset is not found,
\* runs the validation analysis, and afterwards records in the request data
\* that legal analysis waits for validation and whether it was requested.
start_comprehensive_validation(o, request) ==
    IF ~ request.dataset_exists
    THEN [raised |-> TRUE, o |-> o]
    ELSE AndThen(run_validation_analysis(o, request), LAMBDA validated :
            IF validated.raised
            THEN validated
            ELSE IF request.request_id \notin DOMAIN validated.o.active_requests
            THEN [raised |-> TRUE, o |-> validated.o]
            ELSE [raised |-> FALSE,
                  o |-> [validated.o EXCEPT !.active_requests[request.request_id] =
                           Put(Put(Put(@, "legal_status", "pending_validation"),
                                   "legal_result", None),
                               "original_legal_request", request.include_legal_analysis)]])

\* The handler of ComprehensiveValidationRequest messages: the request is
\* tracked, validation is started, and an exception sends an error result.
handle_comprehensive_request(o, sender, msg) ==
    LET tracked == [o EXCEPT !.active_requests =
                        Put(@, msg.request_id,
                            [requester |-> sender, request |-> msg,
                             validation_status |-> "pending", legal_status |-> "pending",
                             validation_result |-> None, legal_result |-> None])]
    IN  AndThen(start_comprehensive_validation(tracked, msg), LAMBDA started :
            IF started.raised
            THEN send_error_result(started.o, sender, msg.request_id, "starting")
            ELSE started.o)

\* The requests the orchestrator receives: the request id, whether
\* dataset_path names an existing file, include_legal_analysis, and the
\* DatasetAnalysisResult that _perform_complete_analysis returns for the
\* dataset, whose raw_tool_outputs carry the synthesis (scores in tenths).
ComprehensiveValidationRequests ==
    UNION { { [request_id |-> id, dataset_exists |-> e, include_legal_analysis |-> l,
               analysis |-> a] :
                e \in BOOLEAN, l \in BOOLEAN,
                a \in {[success |-> FALSE, request_id |-> id,
                        raw_tool_outputs |-> [error |-> "failed"]]}
                      \cup {[success |-> TRUE, request_id |-> id,
                             raw_tool_outputs |-> [overall_utility_score |-> u,
                                                   data_integrity_score |-> i]] :
                                u \in {450, 850}, i \in {380, 650}} } :
            id \in 1..MaxRequests }

InitOrchestrator ==
    /\ pc = "orchestrator"
    /\ dataset = NoResult
    /\ tools_to_run = <<>>
    /\ executed = <<>>
    /\ analysis_results = EmptyDict
    /\ persona_result = NoResult
    /\ scoring_result = NoResult
    /\ synthesis_result = NoResult
    /\ result = NoResult
    /\ runs = 1
    /\ first_run = NoResult
    /\ float_ties = "down"
    /\ sent = <<>>
    /\ active_requests = EmptyDict
    /\ completed_results = EmptyDict
    /\ legal_runs = {}
    /\ validation_results = EmptyDict
    /\ validation_status = EmptyDict
    /\ background_tasks = EmptyDict
    /\ received = EmptyDict

\* The next ComprehensiveValidationRequest is delivered (request ids are
\* fresh, numbered in the order of arrival) and handle_comprehensive_request
\* runs to its end.
HandleComprehensiveRequest ==
    /\ pc = "orchestrator"
    /\ \E msg \in ComprehensiveValidationRequests :
        /\ msg.request_id = Cardinality(DOMAIN received) + 1
        /\ \E o \in {handle_comprehensive_request(
                        [active_requests |-> active_requests,
                         completed_results |-> completed_results,
                         sent |-> sent, legal_runs |-> legal_runs],
                        "requester", msg)} :
               /\ active_requests' = o.active_requests
               /\ completed_results' = o.completed_results
               /\ sent' = o.sent
               /\ legal_runs' = o.legal_runs
        /\ received' = Put(received, msg.request_id, msg)
    /\ UNCHANGED <<pc, dataset, tools_to_run, executed, analysis_results, persona_result,
                   scoring_result, synthesis_result, result, runs, first_run, float_ties,
                   validation_results, validation_status, background_tasks>>

NextOrchestrator == HandleComprehensiveRequest

SpecOrchestrator == InitOrchestrator /\ [][NextOrchestrator]_vars

(***************************************************************************)
(* DatasetValidationOrchestrator (agents/dataset_orchestrator_agent.py)    *)
(***************************************************************************)

\* The requests the dataset orchestrator receives: who sent it, the request
\* id, whether dataset_path names an existing file, and include_legal_analysis.
DatasetValidationRequests ==
    [sender : {"client_a", "client_b"}, request_id : 1..MaxRequests,
     dataset_exists : BOOLEAN, include_legal_analysis : BOOLEAN]

\* _send_error_result of the dataset orchestrator: the error result is sent
\* back; active_requests is not touched.
dataset_send_error_result(messages, sender, request_id, errors) ==
    Append(messages, [to |-> sender, request_id |-> request_id,
                      success |-> FALSE, errors |-> errors])

\* _request_validation_analysis builds a DatasetAnalysisRequest from the
\* keyword arguments given there, which raises when a required field is not
\* among them; otherwise the analysis result is stored in the request state.
request_validation_analysis(requests, msg) ==
    LET required == {"request_id", "dataset_path"}
        arguments == {"dataset_path", "dataset_type", "analysis_depth",
                      "requester_id", "timestamp"}
    IN  IF ~ required \subseteq arguments
        THEN [raised |-> TRUE, active_requests |-> requests]
        ELSE [raised |-> FALSE,
              active_requests |->
                [requests EXCEPT ![msg.request_id] =
                    Put(@, "validation_result", Some([success |-> TRUE]))]]

InitDatasetOrchestrator ==
    /\ pc = "dataset_orchestrator"
    /\ dataset = NoResult
    /\ tools_to_run = <<>>
    /\ executed = <<>>
    /\ analysis_results = EmptyDict
    /\ persona_result = NoResult
    /\ scoring_result = NoResult
    /\ synthesis_result = NoResult
    /\ result = NoResult
    /\ runs = 1
    /\ first_run = NoResult
    /\ float_ties = "down"
    /\ sent = <<>>
    /\ active_requests = EmptyDict
    /\ completed_results = EmptyDict
    /\ legal_runs = {}
    /\ validation_results = EmptyDict
    /\ validation_status = EmptyDict
    /\ background_tasks = EmptyDict
    /\ received = EmptyDict

\* handle_comprehensive_request of the dataset orchestrator, for the next
\* request delivered (request ids are fresh, numbered in the order of
\* arrival).  The request state is stored; a missing dataset file is
\* answered with an error result and the handler returns; otherwise the
\* validation analysis is requested and then the legal analysis (or it is
\* marked skipped), results being synthesized only by the handlers of the
\* agents' responses; an exception is answered with an error result.
HandleDatasetValidationRequest ==
    /\ pc = "dataset_orchestrator"
    /\ \E msg \in DatasetValidationRequests :
        /\ msg.request_id = Cardinality(DOMAIN received) + 1
        /\ LET stored == Put(active_requests, msg.request_id,
                             [validation_result |-> None, legal_result |-> None,
                              sender |-> msg.sender])
               validated == request_validation_analysis(stored, msg)
           IN  IF ~ msg.dataset_exists
               THEN /\ sent' = dataset_send_error_result(sent, msg.sender, msg.request_id,
                                                         "Dataset file not found")
                    /\ active_requests' = stored
                    /\ legal_runs' = legal_runs
               ELSE IF validated.raised
               THEN /\ sent' = dataset_send_error_result(sent, msg.sender, msg.request_id,
                                                         "validation error")
                    /\ active_requests' = validated.active_requests
                    /\ legal_runs' = legal_runs
               ELSE /\ sent' = sent
                    /\ active_requests' =
                        [validated.active_requests EXCEPT ![msg.request_id] =
                            Put(@, "legal_result",
                                Some([skipped |-> ~ msg.include_legal_analysis]))]
                    /\ legal_runs' = IF msg.include_legal_analysis
                                     THEN legal_runs \cup {msg.request_id}
                                     ELSE legal_runs
        /\ received' = Put(received, msg.request_id, msg)
    /\ UNCHANGED <<pc, dataset, tools_to_run, executed, analysis_results, persona_result,
                   scoring_result, synthesis_result, result, runs, first_run, float_ties,
                   completed_results, validation_results, validation_status,
                   background_tasks>>

NextDatasetOrchestrator == HandleDatasetValidationRequest

SpecDatasetOrchestrator == InitDatasetOrchestrator /\ [][NextDatasetOrchestrator]_vars

(***************************************************************************)
(* The validation HTTP API (agents/validation_api.py)                      *)
(*                                                                         *)
(* Endpoints and background tasks run on one event loop: each runs without *)
(* interruption between two awaits.  A background task is at "scheduled"   *)
(* until it starts, at "awaiting" while run_comprehensive_validation is    *)
(* awaited, and at "finished" after it has stored its outcome.             *)
(***************************************************************************)

InitApi ==
    /\ pc = "api"
    /\ dataset = NoResult
    /\ tools_to_run = <<>>
    /\ executed = <<>>
    /\ analysis_results = EmptyDict
    /\ persona_result = NoResult
    /\ scoring_result = NoResult
    /\ synthesis_result = NoResult
    /\ result = NoResult
    /\ runs = 1
    /\ first_run = NoResult
    /\ float_ties = "down"
    /\ sent = <<>>
    /\ active_requests = EmptyDict
    /\ completed_results = EmptyDict
    /\ legal_runs = {}
    /\ validation_results = EmptyDict
    /\ validation_status = EmptyDict
    /\ background_tasks = EmptyDict
    /\ received = EmptyDict

\* validate_by_path for an existing file: a fresh request id is generated
\* (numbered here in the order of generation), its status is set to
\* "processing" and process_validation_task is added as a background task.
ValidateByPath ==
    /\ pc = "api"
    /\ LET request_id == Cardinality(DOMAIN background_tasks) + 1
       IN  /\ request_id <= MaxRequests
           /\ validation_status' = Put(validation_status, request_id, "processing")
           /\ background_tasks' = Put(background_tasks, request_id, "scheduled")
    /\ UNCHANGED <<pc, dataset, tools_to_run, executed, analysis_results, persona_result,
                   scoring_result, synthesis_result, result, runs, first_run, float_ties,
                   sent, active_requests, completed_results, legal_runs,
                   validation_results, received>>

\* process_validation_task up to its await of run_comprehensive_validation.
ProcessValidationTask ==
    /\ pc = "api"
    /\ \E request_id \in DOMAIN background_tasks :
        /\ background_tasks[request_id] = "scheduled"
        /\ background_tasks' = Put(background_tasks, request_id, "awaiting")
    /\ UNCHANGED <<pc, dataset, tools_to_run, executed, analysis_results, persona_result,
                   scoring_result, synthesis_result, result, runs, first_run, float_ties,
                   sent, active_requests, completed_results, legal_runs,
                   validation_results, validation_status, received>>

\* process_validation_task from the return of run_comprehensive_validation
\* to its end: a successful result is stored with status "completed"; an
\* unsuccessful one raises, and the except branch stores status "failed" and
\* an error result.
CompleteValidationTask ==
    /\ pc = "api"
    /\ \E request_id \in DOMAIN background_tasks, success \in BOOLEAN :
        /\ background_tasks[request_id] = "awaiting"
        /\ validation_results' = Put(validation_results, request_id,
                                     [request_id |-> request_id, success |-> success])
        /\ validation_status' = Put(validation_status, request_id,
                                    IF success THEN "completed" ELSE "failed")
        /\ background_tasks' = Put(background_tasks, request_id, "finished")
    /\ UNCHANGED <<pc, dataset, tools_to_run, executed, analysis_results, persona_result,
                   scoring_result, synthesis_result, result, runs, first_run, float_ties,
                   sent, active_requests, completed_results, legal_runs, received>>

\* delete_validation_result for a request id the client was given: the id is
\* popped from validation_results and validation_status and the response is
\* returned; received records the delete requests that have returned.
DeleteValidationResult ==
    /\ pc = "api"
    /\ \E request_id \in DOMAIN background_tasks :
        /\ request_id \notin DOMAIN received
        /\ validation_results' =
            [k \in (DOMAIN validation_results) \ {request_id} |-> validation_results[k]]
        /\ validation_status' =
            [k \in (DOMAIN validation_status) \ {request_id} |-> validation_status[k]]
        /\ received' = Put(received, request_id, "delete")
    /\ UNCHANGED <<pc, dataset, tools_to_run, executed, analysis_results, persona_result,
                   scoring_result, synthesis_result, result, runs, first_run, float_ties,
                   sent, active_requests, completed_results, legal_runs,
                   background_tasks>>

NextApi ==
    \/ ValidateByPath
    \/ ProcessValidationTask
    \/ CompleteValidationTask
    \/ DeleteValidationResult

SpecApi == InitApi /\ [][NextApi]_vars

(***************************************************************************)
(* Properties of the scoring tools (Spec, SpecRepeat)                      *)
(***************************************************************************)

\* C1: the data integrity score, every contextual lens score and the
\* overall utility score that the scoring engine and the synthesizer report
\* lie in [0, 100] (0..1000 in tenths), whatever analyzer outputs are
\* present, missing or failed.
ScoresInRange ==
    /\ scoring_result # NoResult =>
          \A n \in DOMAIN scoring_result.contextual_scores.val :
              scoring_result.contextual_scores.val[n] \in 0..1000
    /\ synthesis_result # NoResult =>
          /\ synthesis_result.data_integrity_score \in 0..1000
          /\ synthesis_result.overall_utility_score \in 0..1000

\* A lens whose score before the bounds is above 100 has been reported as 100.
ScoresInRangeWitness ==
    /\ pc = "synthesized"
    /\ \E n \in DOMAIN scoring_result.contextual_scores.val :
          /\ lens_base_score(extract_metrics(analysis_results), LensConfig(n)) > 100000000
          /\ scoring_result.contextual_scores.val[n] = 1000

\* C2 as stated: the reported overall score is round(0.7 x the reported
\* data integrity score + 0.3 x the highest contextual score given, 1), that
\* is, a multiple of 0.1 nearest to that blend (both in ten-thousandths).
OverallFromReportedIntegrity ==
    pc = "synthesized" =>
        LET val == scoring_result.contextual_scores.val
            highest == CHOOSE h \in {val[n] : n \in DOMAIN val} :
                            \A n \in DOMAIN val : val[n] <= h
            blend == 700 * synthesis_result.data_integrity_score + 300 * highest
        IN  1000 * synthesis_result.overall_utility_score - blend \in -500..500

\* C2 amended: the reported overall score is round(0.7 x D + 0.3 x the
\* highest contextual score given, 1), clamped to [0, 100], where D is the
\* data integrity score before it is rounded for the report (0.5 x
\* completeness + 0.3 x consistency + 0.2 x duplicates, a missing score
\* being 100); D is in thousandths, the blend in ten-thousandths.
OverallFromUnroundedIntegrity ==
    pc = "synthesized" =>
        LET Score(key, field) ==
                IF key \in DOMAIN analysis_results
                THEN Get(analysis_results[key], field, 10000) ELSE 10000
            D == 5 * Score("missing_value_analysis", "integrity_score")
                 + 3 * Score("type_consistency_analysis", "consistency_score")
                 + 2 * Score("duplicate_analysis", "integrity_score")
            val == scoring_result.contextual_scores.val
            highest == CHOOSE h \in {val[n] : n \in DOMAIN val} :
                            \A n \in DOMAIN val : val[n] <= h
            blend == 7 * D + 300 * highest
        IN  /\ blend \in 0..1000000
            /\ 1000 * synthesis_result.overall_utility_score - blend \in -500..500

\* A synthesis whose data integrity score is not a multiple of 0.1, so that
\* the reported and the unrounded integrity score differ.
OverallFromUnroundedIntegrityWitness ==
    /\ pc = "synthesized"
    /\ calculate_data_integrity_score(analysis_results)
          # 100 * synthesis_result.data_integrity_score

\* C3: the data integrity score is 0.5 x completeness + 0.3 x type
\* consistency + 0.2 x duplicates, clamped to [0, 100], the score of an
\* analyzer whose output is missing being 100; the report gives it rounded
\* to one decimal (scores in hundredths, the sum in thousandths).
IntegrityFormula ==
    pc = "synthesized" =>
        LET Score(key, field) ==
                IF key \in DOMAIN analysis_results /\ field \in DOMAIN analysis_results[key]
                THEN analysis_results[key][field] ELSE 10000
            weighted == 5 * Score("missing_value_analysis", "integrity_score")
                        + 3 * Score("type_consistency_analysis", "consistency_score")
                        + 2 * Score("duplicate_analysis", "integrity_score")
            clamped == IF weighted < 0 THEN 0 ELSE IF weighted > 100000 THEN 100000 ELSE weighted
        IN  100 * synthesis_result.data_integrity_score - clamped \in -50..50

\* A synthesis with the duplicate score present (60.9) and the completeness
\* output missing or failed (taken as 100).
IntegrityFormulaWitness ==
    /\ pc = "synthesized"
    /\ "duplicate_analysis" \in DOMAIN analysis_results
    /\ \/ "missing_value_analysis" \notin DOMAIN analysis_results
       \/ "integrity_score" \notin DOMAIN analysis_results["missing_value_analysis"]
    /\ synthesis_result.data_integrity_score < 1000

\* C7 as stated: the confidence of a rule is its matched weight divided by
\* the weight of those of its predicates whose characteristic is present
\* (confidence in thousandths, rounded to three decimals).
ConfidenceOverPresentWeight ==
    persona_result # NoResult =>
        \A i \in 1..Len(persona_rules) :
            LET chars == persona_result.characteristics_used
                preds == persona_rules[i].preds
                matched == SumSeq([k \in 1..Len(preds) |->
                              IF preds[k].char \in DOMAIN chars
                                 /\ rule_matched(chars[preds[k].char], preds[k])
                              THEN preds[k].weight ELSE 0])
                present == SumSeq([k \in 1..Len(preds) |->
                              IF preds[k].char \in DOMAIN chars THEN preds[k].weight ELSE 0])
                confidence == evaluate_persona_rules(chars, persona_rules[i]).confidence
            IN  present > 0 =>
                    2 * (confidence * present - 1000 * matched) \in (-present)..present

\* C7 amended: the confidence of a rule is its matched weight divided by
\* the weight of all of its predicates, those on absent characteristics
\* included, rounded to three decimals.
ConfidenceOverRuleWeight ==
    persona_result # NoResult =>
        \A i \in 1..Len(persona_rules) :
            LET chars == persona_result.characteristics_used
                preds == persona_rules[i].preds
                matched == SumSeq([k \in 1..Len(preds) |->
                              IF preds[k].char \in DOMAIN chars
                                 /\ rule_matched(chars[preds[k].char], preds[k])
                              THEN preds[k].weight ELSE 0])
                all == SumSeq([k \in 1..Len(preds) |-> preds[k].weight])
                confidence == evaluate_persona_rules(chars, persona_rules[i]).confidence
            IN  2 * (confidence * all - 1000 * matched) \in (-all)..all

\* A tagged persona one of whose predicates reads an absent characteristic
\* while another of its predicates matched.
ConfidenceOverRuleWeightWitness ==
    /\ persona_result # NoResult
    /\ \E i \in 1..Len(persona_rules) :
          /\ persona_rules[i].name \in SeqToSet(persona_result.persona_tags)
          /\ persona_result.confidence_scores[persona_rules[i].name] \in 1..999
          /\ \E k \in 1..Len(persona_rules[i].preds) :
                persona_rules[i].preds[k].char \notin DOMAIN persona_result.characteristics_used

\* C8: in a persona tagger result every tag of persona_tags has a
\* confidence at or above the threshold of its rule, and when no rule
\* reaches its threshold persona_tags is the single default tag
\* #GeneralPurposeML with confidence 0.7; persona_tags is never empty.
\* (thresholds in hundredths, confidences in thousandths)
TagsReachThreshold ==
    persona_result # NoResult =>
        LET chars == persona_result.characteristics_used
            tags == persona_result.persona_tags
            Matched(rule) == SumSeq([k \in 1..Len(rule.preds) |->
                                IF rule.preds[k].char \in DOMAIN chars
                                   /\ rule_matched(chars[rule.preds[k].char], rule.preds[k])
                                THEN rule.preds[k].weight ELSE 0])
            All(rule) == SumSeq([k \in 1..Len(rule.preds) |-> rule.preds[k].weight])
            reached == {i \in 1..Len(persona_rules) :
                            100 * Matched(persona_rules[i])
                                >= persona_rules[i].threshold * All(persona_rules[i])}
        IN  /\ tags # <<>>
            /\ \A j \in 1..Len(tags) :
                  \E i \in 1..Len(persona_rules) :
                      /\ persona_rules[i].name = tags[j]
                      /\ persona_result.confidence_scores[tags[j]]
                            >= 10 * persona_rules[i].threshold
            /\ reached = {} =>
                  /\ tags = <<"#GeneralPurposeML">>
                  /\ persona_result.confidence_scores["#GeneralPurposeML"] = 700

\* A result with the default tag alone although some rule has a matched
\* predicate (below its threshold).
TagsReachThresholdWitness ==
    /\ persona_result # NoResult
    /\ persona_result.persona_tags = <<"#GeneralPurposeML">>
    /\ \E i \in 1..Len(persona_rules) :
          LET e == evaluate_persona_rules(persona_result.characteristics_used, persona_rules[i])
          IN  ~e.should_tag /\ e.confidence > 0

\* C9: the list persona_tags of a persona tagger result is in descending
\* order of confidence and the primary persona is its first element.
TagsSortedByConfidence ==
    persona_result # NoResult =>
        LET tags == persona_result.persona_tags
            conf == persona_result.confidence_scores
        IN  /\ \A j \in 1..(Len(tags) - 1) : conf[tags[j]] >= conf[tags[j + 1]]
            /\ persona_result.primary_persona = tags[1]

\* C10: a second run of contextual scoring and synthesis on the same
\* analyzer outputs and persona tags gives the contextual scores, the best
\* context, the primary persona and the overall utility score of the first.
RepeatableScores ==
    (pc = "synthesized" /\ runs > 1) =>
        /\ persona_result.persona_tags = first_run.persona_result.persona_tags
        /\ scoring_result.contextual_scores.val
              = first_run.scoring_result.contextual_scores.val
        /\ scoring_result.best_context = first_run.scoring_result.best_context
        /\ synthesis_result.primary_persona = first_run.synthesis_result.primary_persona
        /\ synthesis_result.overall_utility_score
              = first_run.synthesis_result.overall_utility_score

\* C12: each lens score is 60 plus, for every weighted metric of the lens
\* that has a value, ((value - 50) / 50) x weight x 20, minus every
\* triggered penalty, plus every triggered bonus, the total clamped to
\* [0, 100] once, at the end; the report gives it rounded to one decimal.
\* (metric values in thousandths, the total in millionths, scores in tenths)
LensScoreFormula ==
    scoring_result # NoResult =>
        \A n \in DOMAIN scoring_result.contextual_scores.val :
            LET m == extract_metrics(analysis_results)
                lens == LensConfig(n)
                Value(i) == get_metric_value(m, lens.weights[i].metric)
                weighted == SumSeq([i \in 1..Len(lens.weights) |->
                                IF Value(i) # None
                                THEN (Value(i)[1] - 50000) * lens.weights[i].weight * 4
                                ELSE 0])
                penalties == SumSeq([i \in 1..Len(lens.penalties) |->
                                evaluate_penalty(m, lens.penalties[i])])
                bonuses == SumSeq([i \in 1..Len(lens.bonuses) |->
                                evaluate_bonus(m, lens.bonuses[i])])
                total == 60000000 + weighted - 1000000 * penalties + 1000000 * bonuses
                clamped == IF total < 0 THEN 0 ELSE IF total > 100000000 THEN 100000000 ELSE total
            IN  100000 * scoring_result.contextual_scores.val[n] - clamped \in -50000..50000

\* The general purpose lens is scored with a triggered penalty and a metric
\* away from 50, and another lens, with triggered bonuses, has a total above
\* 100 that is reported as 100.
LensScoreFormulaWitness ==
    /\ scoring_result # NoResult
    /\ LET m == extract_metrics(analysis_results)
           val == scoring_result.contextual_scores.val
       IN  /\ "general_purpose_score" \in DOMAIN val
           /\ \E i \in 1..Len(LensConfig("general_purpose_score").penalties) :
                 evaluate_penalty(m, LensConfig("general_purpose_score").penalties[i]) > 0
           /\ \E i \in 1..Len(LensConfig("general_purpose_score").weights) :
                 contribution(m, LensConfig("general_purpose_score").weights[i]) # 0
           /\ \E n \in DOMAIN val :
                 /\ \E i \in 1..Len(LensConfig(n).bonuses) :
                       evaluate_bonus(m, LensConfig(n).bonuses[i]) > 0
                 /\ lens_base_score(m, LensConfig(n)) > 100000000
                 /\ val[n] = 1000

\* The class balance metrics of the request: the output of the class balance
\* assessor as the persona tagger is given it, or as the assessor returned it
\* to the agent.
BalanceMetrics ==
    IF "class_balance_analysis" \in DOMAIN analysis_results
    THEN analysis_results["class_balance_analysis"]
    ELSE IF /\ "class_balance_assessor_analysis" \in DOMAIN analysis_results
            /\ analysis_results["class_balance_assessor_analysis"].success
         THEN analysis_results["class_balance_assessor_analysis"].analysis.balance_metrics
         ELSE [minority_class |-> [percentage |-> 5000], imbalance_ratio |-> 100]

\* C19: for a binary target whose minority class is 0.5% of the rows, with an
\* imbalance ratio above 100, the persona tagger tags #AnomalyDetection and
\* #ImbalancedLearning, each with a confidence (in thousandths) of at least
\* the threshold of its rule (0.6 for both), and the anomaly research lens
\* scores strictly higher than the general purpose lens.
AnomalyScenario ==
    (/\ BalanceMetrics.minority_class.percentage = 50
     /\ BalanceMetrics.imbalance_ratio > 10000) =>
        /\ persona_result # NoResult =>
              \A tag \in {"#AnomalyDetection", "#ImbalancedLearning"} :
                  /\ tag \in SeqToSet(persona_result.persona_tags)
                  /\ persona_result.confidence_scores[tag] >= 600
        /\ scoring_result # NoResult =>
              LET cs == scoring_result.contextual_scores
              IN  /\ {"anomaly_research_score", "general_purpose_score"}
                         \subseteq SeqToSet(cs.keys)
                  /\ cs.val["anomaly_research_score"] > cs.val["general_purpose_score"]

\* Every analyzer output is in analysis_results and reports success.
AllAnalyzersSucceeded ==
    \A i \in 1..Len(ToolKeys) :
        /\ ToolKeys[i] \in DOMAIN analysis_results
        /\ analysis_results[ToolKeys[i]].success

\* C24: when every analyzer succeeded and the contexts have been scored,
\* every metric named in the weight table of every lens resolves to a value
\* (so that its contribution is added to the lens score).
EveryWeightedMetricResolves ==
    (scoring_result # NoResult /\ AllAnalyzersSucceeded) =>
        \A i \in 1..Len(scoring_lenses) :
            \A j \in 1..Len(scoring_lenses[i].weights) :
                get_metric_value(extract_metrics(analysis_results),
                                 scoring_lenses[i].weights[j].metric) # None

\* Class imbalance ratios, in hundredths (1.0 to 199.0), on both sides of
\* the thresholds 10.0 and 50.0 of the lenses.
ImbalanceRatios == {100, 150, 600, 1000, 1001, 1100, 5000, 5001, 11000, 19900}

\* The score of a lens on the metrics of analysis_results with the class
\* imbalance ratio set to ratio and every other metric as it is, in tenths.
LensScoreAtRatio(lens_name, ratio) ==
    calculate_lens_score(Put(extract_metrics(analysis_results), "imbalance_ratio", ratio),
                         LensConfig(lens_name))

\* C25: with every other metric fixed, a higher class imbalance ratio never
\* gives a lower anomaly-research lens score nor a higher general-purpose
\* lens score.
ImbalanceFavoursAnomalyLens ==
    scoring_result # NoResult =>
        \A r1 \in ImbalanceRatios, r2 \in ImbalanceRatios :
            r1 <= r2 =>
                /\ LensScoreAtRatio("anomaly_research_score", r1)
                    <= LensScoreAtRatio("anomaly_research_score", r2)
                /\ LensScoreAtRatio("general_purpose_score", r1)
                    >= LensScoreAtRatio("general_purpose_score", r2)

\* The contexts of a target with an imbalance ratio of 199.0 have been
\* scored, the anomaly-research lens among them, and with a ratio of 1.0 the
\* anomaly-research score would be lower and the general-purpose score higher.
ImbalanceFavoursAnomalyLensWitness ==
    /\ scoring_result # NoResult
    /\ "class_balance_analysis" \in DOMAIN analysis_results
    /\ analysis_results["class_balance_analysis"].imbalance_ratio = 19900
    /\ "anomaly_research_score" \in SeqToSet(scoring_result.contextual_scores.keys)
    /\ scoring_result.contextual_scores.val["anomaly_research_score"]
        = LensScoreAtRatio("anomaly_research_score", 19900)
    /\ LensScoreAtRatio("anomaly_research_score", 100)
        < LensScoreAtRatio("anomaly_research_score", 19900)
    /\ LensScoreAtRatio("general_purpose_score", 100)
        > LensScoreAtRatio("general_purpose_score", 19900)

\* The persona each lens stands for.
PersonaOfLens(lens_name) ==
    CASE lens_name = "general_purpose_score" -> "#GeneralPurposeML"
      [] lens_name = "anomaly_research_score" -> "#AnomalyDetection"
      [] lens_name = "fairness_audit_score" -> "#FairnessAudit"
      [] lens_name = "predictive_modeling_score" -> "#PredictiveModeling"
      [] lens_name = "robustness_testing_score" -> "#ModelRobustnessTesting"
      [] lens_name = "research_benchmark_score" -> "#DataQualityBenchmark"

\* C26 as stated: the primary persona reported by the synthesizer is one of
\* the persona tags passed to it.
PrimaryPersonaAmongTags ==
    synthesis_result # NoResult =>
        synthesis_result.primary_persona \in SeqToSet(persona_result.persona_tags)

\* C26: the primary persona reported by the synthesizer is the persona of a
\* lens whose contextual score is the highest of those passed to it.
PrimaryPersonaOfBestContext ==
    synthesis_result # NoResult =>
        LET contextual_scores == scoring_result.contextual_scores
        IN  \E n \in SeqToSet(contextual_scores.keys) :
                /\ \A k \in SeqToSet(contextual_scores.keys) :
                        contextual_scores.val[k] <= contextual_scores.val[n]
                /\ synthesis_result.primary_persona = PersonaOfLens(n)

\* A synthesis for which persona tags were passed and whose primary persona,
\* the persona of the best lens, is none of them.
PrimaryPersonaOfBestContextWitness ==
    /\ synthesis_result # NoResult
    /\ persona_result.persona_tags # <<>>
    /\ synthesis_result.primary_persona \notin SeqToSet(persona_result.persona_tags)
    /\ synthesis_result.primary_persona
        = PersonaOfLens(MaxItem(scoring_result.contextual_scores.keys,
                                scoring_result.contextual_scores.val))

(***************************************************************************)
(* Properties of the validation agent's pipeline (SpecPipeline)            *)
(***************************************************************************)

\* C4: in the pipeline, when the completeness, the duplicate or the type
\* consistency analyzer of the run succeeded with a score below 100, the
\* data integrity score the synthesizer computes for the request is below
\* 100 (analyzer scores in hundredths, the reported score in tenths).
IntegrityFromThisRun ==
    synthesis_result # NoResult =>
        LET ar == analysis_results
            Below(key, field) ==
                /\ key \in DOMAIN ar
                /\ ar[key].success
                /\ ar[key].analysis.overall_stats[field] < 10000
        IN  (\/ Below("missing_value_analyzer_analysis", "integrity_score")
             \/ Below("duplicate_record_detector_analysis", "integrity_score")
             \/ Below("data_type_consistency_checker_analysis", "consistency_score"))
            => synthesis_result.data_integrity_score < 1000

\* C5: once the foundational results of a request are recorded, the
\* pipeline aborts if and only if strictly more than half of them have
\* success = false; otherwise it goes on to persona tagging and scoring.
AbortsOnMajorityFailure ==
    LET recorded == DOMAIN analysis_results
        failed == {name \in recorded : ~analysis_results[name].success}
        majority == 2 * Cardinality(failed) > Cardinality(recorded)
        aborted == pc = "done" /\ ~result.success
        tagging == <<"dataset_persona_tagger", "contextual_scoring_engine">>
    IN  /\ (pc = "done" /\ recorded # {}) => (aborted <=> majority)
        /\ pc \in {"persona", "scoring", "synthesis", "synthesized"} => ~majority
        /\ (pc = "done" /\ recorded # {} /\ ~majority) =>
              \E i \in 1..(Len(executed) - 1) : SubSeq(executed, i, i + 1) = tagging

\* A request with exactly half of its results failed, analysed to the end.
AbortsOnMajorityFailureWitness ==
    LET recorded == DOMAIN analysis_results
        failed == {name \in recorded : ~analysis_results[name].success}
    IN  /\ pc = "done"
        /\ result.success
        /\ failed # {}
        /\ 2 * Cardinality(failed) = Cardinality(recorded)

\* C6: when every analyzer result of a request has success = false, the
\* result returned has success = false, an overall utility score of 0 and a
\* non-empty errors list, and the persona tagger, the contextual scoring
\* engine and the synthesizer were not executed.
AllFailedResult ==
    (/\ pc = "done"
     /\ DOMAIN analysis_results # {}
     /\ \A name \in DOMAIN analysis_results : ~analysis_results[name].success)
    => /\ result.success = FALSE
       /\ "overall_utility_score" \in DOMAIN result
       /\ result.overall_utility_score = 0
       /\ result.errors # <<>>
       /\ \A i \in 1..Len(executed) :
             executed[i] \notin {"dataset_persona_tagger", "contextual_scoring_engine",
                                 "utility_score_synthesizer"}

\* C16: within one request, persona tagging, contextual scoring and synthesis
\* start only after every foundational analyzer selected for the request has
\* finished and its result is recorded: whenever one of the three has been
\* called or is about to be, every selected tool has a recorded result and
\* was executed before the persona tagger.
AnalyzersBeforePersonas ==
    LET selected == SeqToSet(select_optimal_tools(dataset))
        high_level == {"dataset_persona_tagger", "contextual_scoring_engine",
                       "utility_score_synthesizer"}
        first_high == {i \in 1..Len(executed) :
                          /\ executed[i] \in high_level
                          /\ \A j \in 1..(i - 1) : executed[j] \notin high_level}
    IN  /\ pc \in {"persona", "scoring", "synthesis", "synthesized"} =>
              \A tool \in selected : ResultKey(tool) \in DOMAIN analysis_results
        /\ \A i \in first_high :
              /\ executed[i] = "dataset_persona_tagger"
              /\ \A tool \in selected : \E j \in 1..(i - 1) : executed[j] = tool
              /\ \A tool \in selected : "success" \in DOMAIN analysis_results[ResultKey(tool)]

\* A request for which nine tools are selected, one of them failed, and the
\* three high-level tools have run.
AnalyzersBeforePersonasWitness ==
    /\ pc = "synthesized"
    /\ Len(select_optimal_tools(dataset)) >= 7
    /\ \E tool \in SeqToSet(select_optimal_tools(dataset)) :
          analysis_results[ResultKey(tool)] = Failed
    /\ executed[Len(executed)] = "utility_score_synthesizer"

\* The loop over the selected tools has ended for a dataset without numeric
\* columns, and the tools that do not need numeric columns succeeded.
NoNumericColumnsAnalysed ==
    /\ dataset # NoResult
    /\ dataset.numeric = 0
    /\ "data_profiler" \in DOMAIN analysis_results
    /\ tools_to_run = <<>>
    /\ pc # "tools"
    /\ failed_tools(analysis_results) \subseteq {ResultKey(tool) : tool \in NumericTools}

SmallCategoricalSkipsMlTools ==
    (/\ pc \notin {"load", "profile"}
     /\ dataset.rows = 25 /\ dataset.numeric = 0 /\ dataset.categorical = 3
     /\ "data_profiler" \in SeqToSet(executed)) =>
        \A tool \in {"baseline_model_performance", "data_separability_scorer"} :
            tool \notin SeqToSet(tools_to_run) \cup SeqToSet(executed)

(***************************************************************************)
(* Properties of the validation agent's message handler (SpecAgent)        *)
(***************************************************************************)

\* C15: when the handler of a DatasetAnalysisRequest has ended, exactly one
\* DatasetAnalysisResult has been sent back to the sender, whether the
\* analysis succeeded or failed.
ExactlyOneReply ==
    pc = "handled" => Len(sent) = 1

(***************************************************************************)
(* Properties of the completeness and duplicate analyzers (SpecAnalyzers)  *)
(***************************************************************************)

\* C17: a table with a larger percentage of repeated rows never gets a higher
\* duplicate score, and a table with a larger percentage of null cells never
\* gets a higher completeness score, whichever bands the two percentages are
\* in.
ScoresNeverIncrease ==
    (pc = "analyzed" /\ first_run # NoResult) =>
        LET before == first_run.analysis_results
            Missing(ar) == ar["missing_value_analyzer_analysis"].analysis.overall_stats
            Duplicates(ar) == ar["duplicate_record_detector_analysis"].analysis.overall_stats
        IN  /\ Missing(analysis_results).missing_percentage >= Missing(before).missing_percentage
                  => Missing(analysis_results).integrity_score <= Missing(before).integrity_score
            /\ Duplicates(analysis_results).duplication_percentage
                      >= Duplicates(before).duplication_percentage
                  => Duplicates(analysis_results).integrity_score
                         <= Duplicates(before).integrity_score

\* Two tables analysed one after the other, the first with 20% of repeated
\* rows and the second with more (across the last band boundary), the
\* second with the strictly lower score.
ScoresNeverIncreaseWitness ==
    /\ pc = "analyzed"
    /\ first_run # NoResult
    /\ first_run.dataset.duplicate_rows * 5 = first_run.dataset.total_rows
    /\ dataset.duplicate_rows > first_run.dataset.duplicate_rows
    /\ analysis_results["duplicate_record_detector_analysis"].analysis.overall_stats.integrity_score
          < first_run.analysis_results["duplicate_record_detector_analysis"].analysis.overall_stats.integrity_score

\* C18: for a table with 30% of repeated rows and no null cell (and no type
\* issue, so a consistency score of 100), the duplicate score is below 20 and
\* the data integrity score 0.5 * completeness + 0.3 * consistency + 0.2 *
\* duplicate score is below 84.
ManyDuplicatesScenario ==
    (/\ pc = "analyzed"
     /\ dataset.duplicate_rows * 10 = dataset.total_rows * 3
     /\ dataset.missing_cells = 0) =>
        LET completeness ==
                analysis_results["missing_value_analyzer_analysis"].analysis.overall_stats
            duplicates ==
                analysis_results["duplicate_record_detector_analysis"].analysis.overall_stats
        IN  /\ duplicates.integrity_score < 2000
            /\ calculate_data_integrity_score(
                   [missing_value_analysis |-> completeness,
                    duplicate_analysis |-> duplicates]) < 84000

(***************************************************************************)
(* Properties of the outlier engine (SpecOutliers)                         *)
(***************************************************************************)

\* The rows of the table that two methods or more flagged in one column.
ConsensusRows ==
    {idx \in SuspectRows :
        \E c \in 1..Len(dataset.columns) :
            \E m1, m2 \in {"zscore", "iqr", "isolation_forest"} :
                m1 # m2 /\ idx \in dataset.columns[c][m1] /\ idx \in dataset.columns[c][m2]}

\* The rows of the table that one method at least flagged in one column.
FlaggedRows ==
    {idx \in SuspectRows :
        \E c \in 1..Len(dataset.columns) :
            \E m \in {"zscore", "iqr", "isolation_forest"} : idx \in dataset.columns[c][m]}

\* C21, as stated: the outlier percentage behind the score counts the rows on
\* which two methods at least agree; a row that a single method flagged does
\* not raise it.
PercentageOfConsensusRows ==
    pc = "analyzed" =>
        analysis_results["outlier_detection_engine_analysis"].analysis.overall_stats.outlier_percentage
            * dataset.total_rows = Cardinality(ConsensusRows) * 10000

\* C21, amended: the outlier percentage behind the score counts every row
\* that one method at least flagged in one numeric column, and the score is
\* 100 up to 1%, 95 - 2.5 (p - 1) up to 3%, 90 - 5 (p - 3) up to 5% (in
\* hundredths of a point here).
PercentageOfFlaggedRows ==
    pc = "analyzed" =>
        LET stats ==
                analysis_results["outlier_detection_engine_analysis"].analysis.overall_stats
            pct == stats.outlier_percentage
        IN  /\ pct * dataset.total_rows = Cardinality(FlaggedRows) * 10000
            /\ pct <= 100 => stats.quality_score = 10000
            /\ (pct > 100 /\ pct <= 300) =>
                  2 * stats.quality_score = 2 * 9500 - 5 * (pct - 100)
            /\ (pct > 300 /\ pct <= 500) => stats.quality_score = 9000 - 5 * (pct - 300)

\* A table in which one row is flagged by the isolation forest alone and no
\* row by two methods: 2% of outliers, a score of 92.5.
PercentageOfFlaggedRowsWitness ==
    /\ pc = "analyzed"
    /\ ConsensusRows = {}
    /\ Cardinality(FlaggedRows) = 1
    /\ \E c \in 1..Len(dataset.columns) : dataset.columns[c].isolation_forest # {}
    /\ analysis_results["outlier_detection_engine_analysis"].analysis.overall_stats.quality_score
          = 9250

(***************************************************************************)
(* Properties of the class balance assessor (SpecBalance)                  *)
(***************************************************************************)

\* C22: for a fixed task type, a target with a larger minority class
\* percentage never gets a lower balance score, whichever balance levels the
\* two percentages are in.
BalanceScoreNeverDecreases ==
    (pc = "analyzed" /\ first_run # NoResult) =>
        LET before == first_run.analysis_results["class_balance_assessor_analysis"].analysis
            after == analysis_results["class_balance_assessor_analysis"].analysis
        IN  (/\ after.target_info.task_type = before.target_info.task_type
             /\ after.balance_metrics.minority_class.percentage
                    >= before.balance_metrics.minority_class.percentage)
                => after.balance_score >= before.balance_score

(***************************************************************************)
(* Properties of the orchestrator agent (SpecOrchestrator)                 *)
(***************************************************************************)

\* The results sent for one request id, in the order they were sent.
ResultsSentFor(id) == SelectSeq(sent, LAMBDA m : m.request_id = id)

\* C23: for every request received in which the user asked for legal
\* analysis and whose dataset was found, so that validation was carried
\* out, the legal analysis was run exactly when validation succeeded
\* and the overall utility score or the data integrity score is at least
\* 50; in every other case no legal analysis was run and the legal status
\* reported for the request is "skipped".
LegalAnalysisWhenWorthwhile ==
    \A id \in DOMAIN received :
        LET request == received[id]
            worthwhile ==
                /\ request.analysis.success
                /\ \/ request.analysis.raw_tool_outputs.overall_utility_score >= 500
                   \/ request.analysis.raw_tool_outputs.data_integrity_score >= 500
        IN  request.include_legal_analysis /\ request.dataset_exists =>
                IF worthwhile
                THEN id \in legal_runs
                ELSE /\ id \notin legal_runs
                     /\ \A k \in 1..Len(ResultsSentFor(id)) :
                            ResultsSentFor(id)[k].legal_status = "skipped"

\* C27: for every request received, at most one ComprehensiveValidationResult
\* (combined or error) has been sent to the requester.
AtMostOneResult ==
    \A id \in DOMAIN received : Len(ResultsSentFor(id)) <= 1

\* Two requests have been handled, one whose dataset was found and analysed
\* successfully and one whose dataset was not found, and each has its result.
AtMostOneResultWitness ==
    /\ \E id \in DOMAIN received :
        /\ received[id].dataset_exists
        /\ received[id].analysis.success
        /\ Len(ResultsSentFor(id)) = 1
    /\ \E id \in DOMAIN received :
        /\ ~ received[id].dataset_exists
        /\ Len(ResultsSentFor(id)) = 1

(***************************************************************************)
(* Properties of the dataset orchestrator (SpecDatasetOrchestrator)        *)
(***************************************************************************)

\* C28: once every request has been delivered and its handler has run to
\* the end, so that nothing is left to happen, each request received,
\* whether its dataset file exists or not, has had a
\* ComprehensiveValidationResult sent to its sender and its request id is
\* no longer in active_requests.
EveryRequestAnsweredAndRemoved ==
    (\A id \in 1..MaxRequests : id \in DOMAIN received) =>
        \A id \in DOMAIN received :
            /\ \E k \in 1..Len(sent) :
                /\ sent[k].request_id = id
                /\ sent[k].to = received[id].sender
            /\ id \notin DOMAIN active_requests

(***************************************************************************)
(* Properties of the validation HTTP API (SpecApi)                         *)
(***************************************************************************)

GradeOfReportedScore ==
    pc = "synthesized" =>
        LET reported == synthesis_result.overall_utility_score
            grade == IF reported >= 900 THEN "A+"
                     ELSE IF reported >= 850 THEN "A"
                     ELSE IF reported >= 800 THEN "A-"
                     ELSE IF reported >= 750 THEN "B+"
                     ELSE IF reported >= 700 THEN "B"
                     ELSE IF reported >= 650 THEN "B-"
                     ELSE IF reported >= 600 THEN "C+"
                     ELSE IF reported >= 550 THEN "C"
                     ELSE IF reported >= 500 THEN "C-"
                     ELSE IF reported >= 400 THEN "D"
                     ELSE "F"
        IN  synthesis_result.utility_grade = grade

\* The data integrity score before it is rounded, in thousandths of a point,
\* from the analyzer outputs of the state (a missing component counts 100).
UnroundedIntegrity ==
    LET component(k, f) ==
            IF k \in DOMAIN analysis_results /\ f \in DOMAIN analysis_results[k]
            THEN analysis_results[k][f] ELSE 10000
    IN  5 * component("missing_value_analysis", "integrity_score")
        + 3 * component("type_consistency_analysis", "consistency_score")
        + 2 * component("duplicate_analysis", "integrity_score")

\* The blend 0.7 * integrity + 0.3 * highest contextual score before it is
\* rounded, in ten-thousandths of a point.
UnroundedBlend ==
    LET cs == scoring_result.contextual_scores
        highest == IF cs.keys = <<>> THEN 500
                   ELSE CHOOSE h \in {cs.val[n] : n \in DOMAIN cs.val} :
                            \A n \in DOMAIN cs.val : cs.val[n] <= h
    IN  7 * UnroundedIntegrity + 300 * highest

\* C13, amended: the utility grade of a result is the grade that the cutoffs
\* give to the overall score before it is rounded to one decimal; the
\* reported overall_utility_score is within 0.05 of that score.
GradeOfUnroundedScore ==
    pc = "synthesized" =>
        /\ synthesis_result.utility_grade =
              (IF UnroundedBlend >= 900000 THEN "A+"
               ELSE IF UnroundedBlend >= 850000 THEN "A"
               ELSE IF UnroundedBlend >= 800000 THEN "A-"
               ELSE IF UnroundedBlend >= 750000 THEN "B+"
               ELSE IF UnroundedBlend >= 700000 THEN "B"
               ELSE IF UnroundedBlend >= 650000 THEN "B-"
               ELSE IF UnroundedBlend >= 600000 THEN "C+"
               ELSE IF UnroundedBlend >= 550000 THEN "C"
               ELSE IF UnroundedBlend >= 500000 THEN "C-"
               ELSE IF UnroundedBlend >= 400000 THEN "D"
               ELSE "F")
        /\ 1000 * synthesis_result.overall_utility_score - UnroundedBlend \in -500..500

\* A result that reports 90.0 for an overall score that is below 90 and not
\* at a rounding tie, graded A.
GradeOfUnroundedScoreWitness ==
    /\ pc = "synthesized"
    /\ synthesis_result.overall_utility_score = 900
    /\ UnroundedBlend < 900000
    /\ UnroundedBlend % 1000 # 500
    /\ synthesis_result.utility_grade = "A"

\* C14: the readiness flags of a result are research_ready = (overall >= 60),
\* production_ready = (overall >= 75 and integrity >= 80), publication_ready =
\* (overall >= 70 and integrity >= 75) and immediate_use = (overall >= 80), on
\* the scores the synthesizer computed; the primary state is the first flag
\* that is true in the order immediate_use, production_ready, research_ready,
\* preprocessing_required, else major_improvements_needed.
ReadinessFlags ==
    pc = "synthesized" =>
        LET r == synthesis_result.readiness_assessment
            order == <<"immediate_use", "production_ready", "research_ready",
                       "preprocessing_required">>
            true_flags == {i \in 1..Len(order) : r[order[i]]}
        IN  /\ r.research_ready = (UnroundedBlend >= 600000)
            /\ r.production_ready = (UnroundedBlend >= 750000 /\ UnroundedIntegrity >= 80000)
            /\ r.publication_ready = (UnroundedBlend >= 700000 /\ UnroundedIntegrity >= 75000)
            /\ r.immediate_use = (UnroundedBlend >= 800000)
            /\ r.primary_state =
                  (IF true_flags = {} THEN "major_improvements_needed"
                   ELSE order[CHOOSE i \in true_flags : \A j \in true_flags : i <= j])

\* A result whose overall score is at least 75 but whose integrity is below
\* 80: research ready is the primary state, production_ready is false.
ReadinessFlagsWitness ==
    /\ pc = "synthesized"
    /\ UnroundedBlend >= 750000
    /\ UnroundedBlend < 800000
    /\ UnroundedIntegrity < 80000
    /\ UnroundedIntegrity >= 75000
    /\ synthesis_result.readiness_assessment.publication_ready
    /\ synthesis_result.readiness_assessment.primary_state = "research_ready"

(***************************************************************************)
(* Properties of a series of requests to the persona tagger (SpecTagger)   *)
(***************************************************************************)

====
